---- MODULE Spec2Model ----
(***************************************************************************)
(* A model of data-veil's core: the Desensitization Processor              *)
(* (backend/app/desensitization_processor.py) and the Recognition Engine   *)
(* (backend/app/recognition_engine.py).                                    *)
(*                                                                         *)
(* A Python str is a sequence of codepoints; a codepoint is a TLA+ string: *)
(* "a" is the letter a, "U59D3" names the codepoint U+59D3.  A confidence  *)
(* is an integer number of tenths: 10 is 1.0 and 8 is 0.8.                 *)
(***************************************************************************)
EXTENDS Integers, Sequences, FiniteSets, TLC

-----------------------------------------------------------------------------
(* Python's str and list primitives *)

Min(a, b) == IF a <= b THEN a ELSE b
Max(a, b) == IF a >= b THEN a ELSE b

\* s[a:b] for indices a, b >= 0: both are clamped to len(s); empty when a >= b.
Slice(s, a, b) ==
    LET lo == Min(a, Len(s))
        hi == Min(b, Len(s))
    IN  IF lo >= hi THEN <<>> ELSE SubSeq(s, lo + 1, hi)

\* s[a:]
SliceFrom(s, a) == Slice(s, a, Len(s))

\* Mutant: the suffix starts one codepoint early.
LastOneMore(s, n) == SubSeq(s, IF Len(s) > n THEN Len(s) - n ELSE 1, Len(s))

\* s[-n:] for n >= 1: the last n codepoints, all of s when it is shorter.
Last(s, n) == SliceFrom(s, Max(Len(s) - n, 0))

\* Mutant: one repetition short.
RepeatOneLess(c, n) == [i \in 1..(n - 1) |-> c]

\* c * n
Repeat(c, n) == [i \in 1..n |-> c]

\* needle in hay, for two strs
IsSubstring(needle, hay) ==
    \E i \in 0..(Len(hay) - Len(needle)) : Slice(hay, i, i + Len(needle)) = needle

RECURSIVE IndexOfFrom(_, _, _)
\* s.find(c, i): the first 0-based index >= i of codepoint c, or -1.
IndexOfFrom(s, c, i) ==
    IF i >= Len(s) THEN -1
    ELSE IF s[i + 1] = c THEN i
    ELSE IndexOfFrom(s, c, i + 1)

-----------------------------------------------------------------------------
(* Strategy Set *)

Star == "*"

\* Mutant: the value is split at its last '@'.
MaskEmailLastAt(email) ==
    IF \A i \in 1..Len(email) : email[i] # "@" THEN email
    ELSE LET at == CHOOSE i \in 1..Len(email) :
                       email[i] = "@" /\ \A k \in (i + 1)..Len(email) : email[k] # "@"
         IN  (IF at <= 2 THEN <<"*">> ELSE <<email[1], "*", "*", "*">>)
             \o SubSeq(email, at, Len(email))

\* MaskStrategy._mask_email
MaskEmail(email) ==
    LET at == IndexOfFrom(email, "@", 0)
    IN  IF at = -1 THEN email
        ELSE LET username == Slice(email, 0, at)
                 domain == SliceFrom(email, at + 1)
                 masked_username ==
                     IF Len(username) <= 1 THEN <<Star>>
                     ELSE <<username[1]>> \o Repeat(Star, 3)
             IN  masked_username \o <<"@">> \o domain

\* The codepoints of the address patterns: U+7701 (province), U+5E02 (city),
\* U+533A (district), U+53BF (county).
ProvinceCity == {"U7701", "U5E02"}
CityDistrictCounty == {"U5E02", "U533A", "U53BF"}

RECURSIVE FirstIn(_, _, _)
\* The first 0-based index >= i whose codepoint is in set, reached over
\* codepoints '.' matches (anything but a newline), or -1.
FirstIn(s, set, i) ==
    IF i >= Len(s) THEN -1
    ELSE IF s[i + 1] \in set THEN i
    ELSE IF s[i + 1] = "\n" THEN -1
    ELSE FirstIn(s, set, i + 1)

RECURSIVE MatchProvinceCity(_, _)
\* re.match(r'(.*?[..].*?[...])', s) with the lazy prefix tried from index
\* from: the end of group 1, or -1.  The prefix stops at the first province or
\* city codepoint; when no city, district or county codepoint completes the
\* match after it, the prefix backtracks past it.
MatchProvinceCity(s, from) ==
    LET i == FirstIn(s, ProvinceCity, from)
        j == IF i = -1 THEN -1 ELSE FirstIn(s, CityDistrictCounty, i + 1)
    IN  IF i = -1 THEN -1
        ELSE IF j # -1 THEN j + 1
        ELSE MatchProvinceCity(s, i + 1)

\* re.match(r'(.*?[...])', s): the end of group 1, or -1.
MatchCity(s) ==
    LET j == FirstIn(s, CityDistrictCounty, 0)
    IN  IF j = -1 THEN -1 ELSE j + 1

MaskSuffix == Repeat(Star, 6)

\* Mutant: an address of six codepoints already keeps its first six.
MaskAddressFromSix(address) ==
    LET m1 == MatchProvinceCity(address, 0)
        m2 == MatchCity(address)
    IN  IF m1 # -1 THEN Slice(address, 0, m1) \o MaskSuffix
        ELSE IF m2 # -1 THEN Slice(address, 0, m2) \o MaskSuffix
        ELSE IF Len(address) >= 6 THEN Slice(address, 0, 6) \o MaskSuffix
        ELSE MaskSuffix

\* MaskStrategy._mask_address
MaskAddress(address) ==
    LET m1 == MatchProvinceCity(address, 0)
        m2 == MatchCity(address)
    IN  IF m1 # -1 THEN Slice(address, 0, m1) \o MaskSuffix
        ELSE IF m2 # -1 THEN Slice(address, 0, m2) \o MaskSuffix
        ELSE IF Len(address) > 6 THEN Slice(address, 0, 6) \o MaskSuffix
        ELSE MaskSuffix

\* The six data types, each a str.
Name == <<"n", "a", "m", "e">>
IdCard == <<"i", "d", "_", "c", "a", "r", "d">>
Phone == <<"p", "h", "o", "n", "e">>
Address == <<"a", "d", "d", "r", "e", "s", "s">>
BankCard == <<"b", "a", "n", "k", "_", "c", "a", "r", "d">>
Email == <<"e", "m", "a", "i", "l">>

\* MaskStrategy.apply
MaskApply(value, data_type) ==
    IF value = <<>> THEN value
    ELSE IF data_type = Name THEN
        IF Len(value) <= 1 THEN value
        ELSE <<value[1]>> \o Repeat(Star, Len(value) - 1)
    ELSE IF data_type = IdCard THEN
        IF Len(value) < 18 THEN value
        ELSE Slice(value, 0, 6) \o Repeat(Star, 8) \o Last(value, 4)
    ELSE IF data_type = Phone THEN
        IF Len(value) < 11 THEN value
        ELSE Slice(value, 0, 3) \o Repeat(Star, 4) \o Last(value, 4)
    ELSE IF data_type = Address THEN MaskAddress(value)
    ELSE IF data_type = BankCard THEN
        IF Len(value) < 8 THEN value
        ELSE Slice(value, 0, 4) \o Repeat(Star, Len(value) - 8) \o Last(value, 4)
    ELSE IF data_type = Email THEN MaskEmail(value)
    ELSE IF Len(value) <= 2 THEN Repeat(Star, Len(value))
    ELSE <<value[1]>> \o Repeat(Star, Len(value) - 2) \o <<value[Len(value)]>>

\* ReplaceStrategy.PLACEHOLDERS and the generic placeholder of .get()
Placeholder(data_type) ==
    IF data_type = Name THEN <<"[", "U59D3", "U540D", "]">>
    ELSE IF data_type = IdCard THEN <<"[", "U8EAB", "U4EFD", "U8BC1", "]">>
    ELSE IF data_type = Phone THEN <<"[", "U7535", "U8BDD", "]">>
    ELSE IF data_type = Address THEN <<"[", "U5730", "U5740", "]">>
    ELSE IF data_type = BankCard THEN <<"[", "U94F6", "U884C", "U5361", "]">>
    ELSE IF data_type = Email THEN <<"[", "U90AE", "U7BB1", "]">>
    ELSE <<"[", "U654F", "U611F", "U4FE1", "U606F", "]">>

\* Mutant: an empty value is returned as it is, as MaskStrategy does.
ReplaceApplyKeepEmpty(value, data_type) ==
    IF value = <<>> THEN value ELSE Placeholder(data_type)

\* Mutant: the placeholder carries the value between its brackets.
ReplaceApplyTagged(value, data_type) == <<"[">> \o value \o <<"]">>

\* ReplaceStrategy.apply
ReplaceApply(value, data_type) == Placeholder(data_type)

\* DeleteStrategy.apply
DeleteApply(value, data_type) == <<>>

\* DesensitizationProcessor.strategies: the names .get() finds.
StrategyNames == {"mask", "replace", "delete"}

\* strategy.apply(value, data_type) for the strategy registered under name.
StrategyApply(name, value, data_type) ==
    CASE name = "mask" -> MaskApply(value, data_type)
      [] name = "replace" -> ReplaceApply(value, data_type)
      [] name = "delete" -> DeleteApply(value, data_type)

-----------------------------------------------------------------------------
(* Rule Resolver *)

\* Mutant: the enabled flag is not looked at.
RECURSIVE FindRuleAnyFlag(_, _)
FindRuleAnyFlag(data_type, rs) ==
    IF rs = <<>> THEN <<>>
    ELSE IF Head(rs).data_type = data_type THEN <<Head(rs)>>
    ELSE FindRuleAnyFlag(data_type, Tail(rs))

RECURSIVE FindRuleLast(_, _)
\* Mutant: the last matching enabled rule wins.
FindRuleLast(data_type, rs) ==
    IF rs = <<>> THEN <<>>
    ELSE IF rs[Len(rs)].data_type = data_type /\ rs[Len(rs)].enabled THEN <<rs[Len(rs)]>>
    ELSE FindRuleLast(data_type, SubSeq(rs, 1, Len(rs) - 1))

RECURSIVE FindRule(_, _)
\* DesensitizationProcessor._find_rule: <<rule>> for the first matching enabled
\* rule, <<>> for None.
FindRule(data_type, rs) ==
    IF rs = <<>> THEN <<>>
    ELSE IF Head(rs).data_type = data_type /\ Head(rs).enabled THEN <<Head(rs)>>
    ELSE FindRule(data_type, Tail(rs))

-----------------------------------------------------------------------------
(* Desensitization Processor *)

VARIABLES
    text,             \* process: the text argument
    sensitive_items,  \* process: the sensitive_items argument
    rules,            \* process: the rules argument
    p_pc,             \* process: "start", "loop" or "done"
    sorted_items,     \* process: the items by start_pos, descending
    p_idx,            \* process: the 1-based position of the for loop in sorted_items
    value_mapping,    \* process: cache key -> desensitized value
    result,           \* process: the working text, and what process returns
    applied           \* history: per item visited, whether it was spliced and with what

procVars == <<text, sensitive_items, rules, p_pc, sorted_items, p_idx,
              value_mapping, result, applied>>

RECURSIVE InsertByStartDesc(_, _)
\* x placed after every element whose start_pos is not smaller.
InsertByStartDesc(s, x) ==
    IF s = <<>> THEN <<x>>
    ELSE IF x.start_pos > Head(s).start_pos THEN <<x>> \o s
    ELSE <<Head(s)>> \o InsertByStartDesc(Tail(s), x)

\* Mutant: the items are taken in the order given, without sorting.
SortedByStartDescUnsorted(s) == s

RECURSIVE SortedByStartDesc(_)
\* sorted(sensitive_items, key=lambda x: x.start_pos, reverse=True): the sort is
\* stable, and with reverse=True items of equal start_pos keep their input order.
SortedByStartDesc(s) ==
    IF s = <<>> THEN <<>>
    ELSE InsertByStartDesc(SortedByStartDesc(SubSeq(s, 1, Len(s) - 1)), s[Len(s)])

\* cache_key = f"{item.type}:{item.value}"
CacheKey(item) == item.type \o <<":">> \o item.value

\* Mutant: the cache keeps the original value under the key.
CacheStoreOriginal(mapping, key, new_value, value) ==
    [k \in DOMAIN mapping \cup {key} |-> IF k = key THEN value ELSE mapping[k]]

\* value_mapping[cache_key] = new_value
CacheStore(mapping, key, new_value, value) ==
    [k \in DOMAIN mapping \cup {key} |-> IF k = key THEN new_value ELSE mapping[k]]

\* Mutant: the replacement is inserted at start_pos and nothing is cut out.
SpliceInsert(working, item, new_value) ==
    Slice(working, 0, item.start_pos) \o new_value \o SliceFrom(working, item.start_pos)

\* result[:item.start_pos] + new_value + result[item.end_pos:]
Splice(working, item, new_value) ==
    Slice(working, 0, item.start_pos) \o new_value \o SliceFrom(working, item.end_pos)

\* Mutant: neither _find_rule nor the loop body looks at the enabled flag.
ResolveAnyFlag(item, rs) ==
    LET rule == FindRuleAnyFlag(item.type, rs)
    IN  IF rule # <<>> /\ rule[1].strategy \in StrategyNames THEN rule ELSE <<>>

\* process, lines 281-287: <<rule>> when a rule is found, it is enabled and its
\* strategy is registered (the loop body then splices), else <<>>.
Resolve(item, rs) ==
    LET rule == FindRule(item.type, rs)
    IN  IF rule # <<>> /\ rule[1].enabled /\ rule[1].strategy \in StrategyNames
        THEN rule ELSE <<>>

\* Mutant: the cache is kept in the processor and outlives the call.
EmptyCacheKeep(previous) == previous

\* process, line 267: value_mapping = {}, a local of the call: it is created empty
\* whatever an earlier call left, and is gone when the call returns.
EmptyCache(previous) == <<>>

\* process, lines 262-277: the identity fast path, or the sort.
ProcessStart ==
    /\ p_pc = "start"
    /\ IF text = <<>> \/ sensitive_items = <<>>
       THEN /\ result' = text
            /\ p_pc' = "done"
            /\ UNCHANGED <<sorted_items, value_mapping, p_idx>>
       ELSE /\ value_mapping' = EmptyCache(value_mapping)
            /\ sorted_items' = SortedByStartDesc(sensitive_items)
            /\ result' = text
            /\ p_idx' = 1
            /\ p_pc' = "loop"
    /\ UNCHANGED <<text, sensitive_items, rules, applied>>

\* process, lines 279-304: one iteration of the for loop.
ProcessItem ==
    /\ p_pc = "loop"
    /\ p_idx <= Len(sorted_items)
    /\ LET item == sorted_items[p_idx]
           rule == Resolve(item, rules)
           cache_key == CacheKey(item)
           new_value ==
               IF cache_key \in DOMAIN value_mapping THEN value_mapping[cache_key]
               ELSE StrategyApply(rule[1].strategy, item.value, item.type)
       IN  IF rule # <<>>
           THEN /\ value_mapping' =
                       IF cache_key \in DOMAIN value_mapping THEN value_mapping
                       ELSE CacheStore(value_mapping, cache_key, new_value, item.value)
                /\ result' = Splice(result, item, new_value)
                /\ applied' = Append(applied, [hit |-> TRUE, new_value |-> new_value])
           ELSE /\ UNCHANGED <<value_mapping, result>>
                /\ applied' = Append(applied, [hit |-> FALSE, new_value |-> <<>>])
    /\ p_idx' = p_idx + 1
    /\ UNCHANGED <<text, sensitive_items, rules, p_pc, sorted_items>>

\* process, line 306: return result.
ProcessReturn ==
    /\ p_pc = "loop"
    /\ p_idx > Len(sorted_items)
    /\ p_pc' = "done"
    /\ UNCHANGED <<text, sensitive_items, rules, sorted_items, p_idx,
                   value_mapping, result, applied>>

(* The inputs of process *)

MaxSpans == 2

\* The texts process is given: the empty text, and one in which a value recurs.
Texts == {<<>>, <<"a", "b", "a">>}

SpanTypes == {Name, Phone}

\* The SensitiveItem objects over t that __post_init__ accepts (it raises only
\* when end_pos < start_pos), in bounds and carrying the substring they cover.
SpansOf(t) ==
    {[type |-> ty, value |-> Slice(t, s, s + n), start_pos |-> s, end_pos |-> s + n] :
        ty \in SpanTypes, s \in 0..Len(t), n \in 0..Len(t)} 

SpanLists(t) ==
    UNION {[1..n -> {x \in SpansOf(t) : x.end_pos <= Len(t)}] : n \in 0..MaxSpans}

\* The rules a caller configures for one data type: none, a disabled one, or an
\* enabled one with a registered or an unregistered ("hash") strategy.
RuleOptions(ty) ==
    {<<>>, <<[data_type |-> ty, strategy |-> "replace", enabled |-> FALSE]>>}
    \cup {<<[data_type |-> ty, strategy |-> st, enabled |-> TRUE]>> :
            st \in StrategyNames \cup {"hash"}}

RuleLists == {n \o ph : n \in RuleOptions(Name), ph \in RuleOptions(Phone)}

ProcInit ==
    /\ text \in Texts
    /\ sensitive_items \in SpanLists(text)
    /\ rules \in RuleLists
    /\ p_pc = "start"
    /\ sorted_items = <<>>
    /\ p_idx = 0
    /\ value_mapping = <<>>
    /\ result = <<>>
    /\ applied = <<>>

-----------------------------------------------------------------------------
(* Properties of process *)

\* The claims' overlap test for two intervals.
Overlap(a, b) == ~(a.end_pos <= b.start_pos \/ a.start_pos >= b.end_pos)

Indices(s) == 1..Len(s)

PairwiseNonOverlapping(s) ==
    \A i, j \in Indices(s) : i # j => ~Overlap(s[i], s[j])

DistinctStarts(s) ==
    \A i, j \in Indices(s) : i # j => s[i].start_pos # s[j].start_pos

WellPlaced(t, s) ==
    \A i \in Indices(s) :
        /\ 0 <= s[i].start_pos
        /\ s[i].start_pos <= s[i].end_pos
        /\ s[i].end_pos <= Len(t)
        /\ s[i].value = Slice(t, s[i].start_pos, s[i].end_pos)

\* Some rule of rs has item's category and is enabled.
HasEnabledRule(item, rs) ==
    \E k \in Indices(rs) : rs[k].data_type = item.type /\ rs[k].enabled

\* The strategy of the first enabled rule of item's category.
FirstEnabledStrategy(item, rs) ==
    LET k == CHOOSE k \in Indices(rs) :
                 /\ rs[k].data_type = item.type /\ rs[k].enabled
                 /\ \A m \in 1..(k - 1) : ~(rs[m].data_type = item.type /\ rs[m].enabled)
    IN  rs[k].strategy

\* What the rules make of item: its transformed value, or its own value when no
\* enabled rule with a registered strategy covers it.
Transformed(item, rs) ==
    IF HasEnabledRule(item, rs) /\ FirstEnabledStrategy(item, rs) \in StrategyNames
    THEN StrategyApply(FirstEnabledStrategy(item, rs), item.value, item.type)
    ELSE item.value

RECURSIVE RebuildFrom(_, _, _, _)
\* The left-to-right buffer rebuild over the spans s (ascending): the gap before
\* each span copied from t, then what the rules make of the span, then the rest.
RebuildFrom(t, s, rs, cursor) ==
    IF s = <<>> THEN SliceFrom(t, cursor)
    ELSE Slice(t, cursor, Head(s).start_pos) \o Transformed(Head(s), rs)
         \o RebuildFrom(t, Tail(s), rs, Max(cursor, Head(s).end_pos))

\* The orders of s that ascend by start_pos (more than one when starts tie).
AscendingOrders(s) ==
    {p \in [Indices(s) -> Indices(s)] :
        /\ \A i, j \in Indices(s) : i # j => p[i] # p[j]
        /\ \A i, j \in Indices(s) : i < j => s[p[i]].start_pos <= s[p[j]].start_pos}

Rebuilds(t, s, rs) ==
    {RebuildFrom(t, [i \in Indices(s) |-> s[p[i]]], rs, 0) : p \in AscendingOrders(s)}

Spliced(i) == i \in Indices(applied) /\ applied[i].hit

\* C1: within one call, any two spans of the same category and value that an
\* enabled rule with a registered strategy covers are replaced by the same string.
C1_Consistency ==
    \A i, j \in Indices(applied) :
        (/\ Spliced(i) /\ Spliced(j)
         /\ sorted_items[i].type = sorted_items[j].type
         /\ sorted_items[i].value = sorted_items[j].value)
        => applied[i].new_value = applied[j].new_value

\* C1 witness: a finished call that spliced two spans of one category and value,
\* with a replacement that is not the value itself.
C1_Witness ==
    /\ p_pc = "done"
    /\ \E i, j \in Indices(applied) :
        /\ i # j /\ Spliced(i) /\ Spliced(j)
        /\ sorted_items[i].type = sorted_items[j].type
        /\ sorted_items[i].value = sorted_items[j].value
        /\ sorted_items[i].start_pos # sorted_items[j].start_pos
        /\ applied[i].new_value # sorted_items[i].value

\* C2: for pairwise non-overlapping, in-bounds spans carrying their substring,
\* the splice of process (on a non-empty text, where it runs) returns the
\* left-to-right buffer rebuild, in some ascending order of the spans.
C2_SpliceIsRebuild ==
    (/\ p_pc = "done"
     /\ text # <<>>
     /\ PairwiseNonOverlapping(sensitive_items)
     /\ WellPlaced(text, sensitive_items))
    => result \in Rebuilds(text, sensitive_items, rules)

RECURSIVE ShiftSum(_, _, _)
ShiftSum(s, rs, before) ==
    IF s = <<>> THEN 0
    ELSE (IF Head(s).start_pos < before
          THEN Len(Transformed(Head(s), rs)) - (Head(s).end_pos - Head(s).start_pos)
          ELSE 0) + ShiftSum(Tail(s), rs, before)

\* The stretch of the output that stands where item stood.
OutputStretch(item) ==
    LET at == item.start_pos + ShiftSum(sensitive_items, rules, item.start_pos)
    IN  Slice(result, at, at + Len(Transformed(item, rules)))

C4_NothingApplies ==
    (/\ p_pc = "done"
     /\ \/ text = <<>>
        \/ sensitive_items = <<>>
        \/ \A i \in Indices(sensitive_items) : ~HasEnabledRule(sensitive_items[i], rules))
    => result = text

\* C4 witness: a finished call on a non-empty text with a span whose only rule is
\* disabled (its strategy would have changed the text).
C4_Witness ==
    /\ p_pc = "done"
    /\ text # <<>>
    /\ \A i \in Indices(sensitive_items) : ~HasEnabledRule(sensitive_items[i], rules)
    /\ \E i \in Indices(sensitive_items), k \in Indices(rules) :
        /\ rules[k].data_type = sensitive_items[i].type
        /\ ~rules[k].enabled
        /\ rules[k].strategy = "replace"
        /\ sensitive_items[i].value # <<>>
    /\ result = text

-----------------------------------------------------------------------------
(* Pattern Matcher Set: REGEX_PATTERNS and re.finditer *)

Digits == {"0", "1", "2", "3", "4", "5", "6", "7", "8", "9"}
Lower == {"a", "b", "c", "d", "e", "f", "g", "h", "i", "j", "k", "l", "m",
          "n", "o", "p", "q", "r", "s", "t", "u", "v", "w", "x", "y", "z"}
Upper == {"A", "B", "C", "D", "E", "F", "G", "H", "I", "J", "K", "L", "M",
          "N", "O", "P", "Q", "R", "S", "T", "U", "V", "W", "X", "Y", "Z"}
Letters == Lower \cup Upper
\* [a-zA-Z0-9._%+-] and [a-zA-Z0-9.-]
LocalChars == Letters \cup Digits \cup {".", "_", "%", "+", "-"}
DomainChars == Letters \cup Digits \cup {".", "-"}

\* The codepoint at 0-based index i, or "" past the end (no codepoint equals it).
At(s, i) == IF i < Len(s) THEN s[i + 1] ELSE ""

RECURSIVE RunLength(_, _, _, _)
\* How many codepoints of class from index i on, counted up to cap.
RunLength(s, class, i, cap) ==
    IF cap = 0 \/ At(s, i) \notin class THEN 0
    ELSE 1 + RunLength(s, class, i + 1, cap - 1)

\* r'\d{17}[\dXx]' tried at index i: the end of the match, or -1.
MatchIdCard(s, i) ==
    IF RunLength(s, Digits, i, 17) = 17 /\ At(s, i + 17) \in Digits \cup {"X", "x"}
    THEN i + 18 ELSE -1

\* r'\d{16,19}' tried at index i: greedy, so the longest run of up to 19 digits.
MatchBankCard(s, i) ==
    LET n == RunLength(s, Digits, i, 19)
    IN  IF n >= 16 THEN i + n ELSE -1

\* r'1[3-9]\d{9}' tried at index i.
MatchPhone(s, i) ==
    IF /\ At(s, i) = "1"
       /\ At(s, i + 1) \in {"3", "4", "5", "6", "7", "8", "9"}
       /\ RunLength(s, Digits, i + 2, 9) = 9
    THEN i + 11 ELSE -1

RECURSIVE EmailDomainEnd(_, _, _)
\* The domain [a-zA-Z0-9.-]+ starts at index q and is tried with d codepoints, the
\* longest first; it must be followed by '.' and at least two letters, of which
\* the greedy {2,} takes the whole run.  The end of the match, or -1.
EmailDomainEnd(s, q, d) ==
    IF d < 1 THEN -1
    ELSE LET tld == RunLength(s, Letters, q + d + 1, Len(s))
         IN  IF At(s, q + d) = "." /\ tld >= 2 THEN q + d + 1 + tld
             ELSE EmailDomainEnd(s, q, d - 1)

RECURSIVE EmailLocalEnd(_, _, _)
\* The local part [a-zA-Z0-9._%+-]+ starts at index i and is tried with l
\* codepoints, the longest first; it must be followed by '@' and a domain.
EmailLocalEnd(s, i, l) ==
    IF l < 1 THEN -1
    ELSE LET q == i + l + 1
             e == IF At(s, i + l) = "@"
                  THEN EmailDomainEnd(s, q, RunLength(s, DomainChars, q, Len(s)))
                  ELSE -1
         IN  IF e # -1 THEN e ELSE EmailLocalEnd(s, i, l - 1)

\* r'[a-zA-Z0-9._%+-]+@[a-zA-Z0-9.-]+\.[a-zA-Z]{2,}' tried at index i.
MatchEmail(s, i) == EmailLocalEnd(s, i, RunLength(s, LocalChars, i, Len(s)))

\* REGEX_PATTERNS, in the order of the dict.
PatternTypes == <<IdCard, BankCard, Phone, Email>>

\* Pattern number p tried at index i: the end of the match, or -1.
MatchAt(p, s, i) ==
    CASE p = 1 -> MatchIdCard(s, i)
      [] p = 2 -> MatchBankCard(s, i)
      [] p = 3 -> MatchPhone(s, i)
      [] p = 4 -> MatchEmail(s, i)

RECURSIVE SearchFrom(_, _, _)
\* re.finditer's next match of pattern p at or after index i: <<start, end>>, or
\* <<>> when there is none.  No pattern matches the empty string.
SearchFrom(p, s, i) ==
    IF i >= Len(s) THEN <<>>
    ELSE IF MatchAt(p, s, i) # -1 THEN <<i, MatchAt(p, s, i)>>
    ELSE SearchFrom(p, s, i + 1)

RECURSIVE FindIter(_, _, _)
\* re.finditer(pattern, text), line 70: the matches of pattern p at or after
\* index i, each searched from the end of the one before.
FindIter(p, s, i) ==
    LET m == SearchFrom(p, s, i)
    IN  IF m = <<>> THEN <<>> ELSE <<m>> \o FindIter(p, s, m[2])

\* Mutant: end_pos is the index of the last matched codepoint.
RegexItemInclusiveEnd(data_type, s, start, end) ==
    [type |-> data_type, value |-> Slice(s, start, end), start_pos |-> start,
     end_pos |-> end - 1, confidence |-> 10]

\* _regex_recognition, lines 80-86: the SensitiveItem of a match.
RegexItem(data_type, s, start, end) ==
    [type |-> data_type, value |-> Slice(s, start, end), start_pos |-> start,
     end_pos |-> end, confidence |-> 10]

\* Mutant: only the last position of the match is looked up.
ClaimedLastOnly(matched, start, end) == (end - 1) \in matched

\* Mutant: only the first position of the match is looked up.
ClaimedFirstOnly(matched, start, end) == start \in matched

\* _regex_recognition, lines 74-77: any(pos in matched_positions for pos in
\* range(start, end)).
Claimed(matched, start, end) == \E pos \in start..(end - 1) : pos \in matched

\* The state of _regex_recognition entered for a text: the first pattern, its
\* finditer at index 0, no items, no matched positions.
ScanInit == [pattern |-> 1, pos |-> 0, items |-> <<>>, matched_positions |-> {}]

ScanDone(sc) == sc.pattern > Len(PatternTypes)

\* _regex_recognition, lines 68-91: one step of the two loops.  The current
\* pattern's next match is emitted and its positions marked, or discarded; when
\* the pattern has no further match, the next pattern starts.
ScanStep(s, sc) ==
    LET m == SearchFrom(sc.pattern, s, sc.pos)
    IN  IF m = <<>>
        THEN [sc EXCEPT !.pattern = sc.pattern + 1, !.pos = 0]
        ELSE IF Claimed(sc.matched_positions, m[1], m[2])
        THEN [sc EXCEPT !.pos = m[2]]
        ELSE [sc EXCEPT !.pos = m[2],
                        !.items = Append(sc.items,
                                         RegexItem(PatternTypes[sc.pattern], s, m[1], m[2])),
                        !.matched_positions = sc.matched_positions \cup (m[1]..(m[2] - 1))]

RECURSIVE ScanRun(_, _)
ScanRun(s, sc) == IF ScanDone(sc) THEN sc ELSE ScanRun(s, ScanStep(s, sc))

\* RecognitionEngine._regex_recognition
RegexRecognition(s) == ScanRun(s, ScanInit).items

-----------------------------------------------------------------------------
(* Span Deduplicator *)

RECURSIVE InsertByPosition(_, _)
\* x placed after every element whose (start_pos, end_pos) is not greater.
InsertByPosition(s, x) ==
    IF s = <<>> THEN <<x>>
    ELSE IF \/ x.start_pos < Head(s).start_pos
            \/ (x.start_pos = Head(s).start_pos /\ x.end_pos < Head(s).end_pos)
    THEN <<x>> \o s
    ELSE <<Head(s)>> \o InsertByPosition(Tail(s), x)

\* Mutant: the items are taken in the order given, without sorting.
SortedByPositionUnsorted(s) == s

RECURSIVE SortedByPosition(_)
\* sorted(items, key=lambda x: (x.start_pos, x.end_pos)): stable.
SortedByPosition(s) ==
    IF s = <<>> THEN <<>>
    ELSE InsertByPosition(SortedByPosition(SubSeq(s, 1, Len(s) - 1)), s[Len(s)])

\* Mutant: only spans of the same start_pos count as overlapping.
ItemsOverlapSameStart(item, existing) == item.start_pos = existing.start_pos

\* _deduplicate, line 191: the overlap test.
ItemsOverlap(item, existing) ==
    ~(item.end_pos <= existing.start_pos \/ item.start_pos >= existing.end_pos)

\* The index of the first existing item that item overlaps, or 0.
FirstOverlap(deduplicated, item) ==
    IF \E i \in 1..Len(deduplicated) : ItemsOverlap(item, deduplicated[i])
    THEN CHOOSE i \in 1..Len(deduplicated) :
            /\ ItemsOverlap(item, deduplicated[i])
            /\ \A k \in 1..(i - 1) : ~ItemsOverlap(item, deduplicated[k])
    ELSE 0

\* Mutant: the candidate takes the place of the accepted item it overlaps
\* whatever the confidences are.
DedupStepLaterWins(deduplicated, item) ==
    LET i == FirstOverlap(deduplicated, item)
    IN  IF i = 0 THEN Append(deduplicated, item)
        ELSE [deduplicated EXCEPT ![i] = item]

\* Mutant: the accepted item stays whatever the confidences are.
DedupStepFirstWins(deduplicated, item) ==
    LET i == FirstOverlap(deduplicated, item)
    IN  IF i = 0 THEN Append(deduplicated, item) ELSE deduplicated

\* Mutant: on equal confidence the accepted item always stays.
DedupStepTieKeeps(deduplicated, item) ==
    LET i == FirstOverlap(deduplicated, item)
    IN  IF i = 0 THEN Append(deduplicated, item)
        ELSE IF item.confidence > deduplicated[i].confidence
        THEN [deduplicated EXCEPT ![i] = item]
        ELSE deduplicated

\* _deduplicate, lines 186-203: the loop body for one item of sorted_items.
DedupStep(deduplicated, item) ==
    LET i == FirstOverlap(deduplicated, item)
    IN  IF i = 0 THEN Append(deduplicated, item)
        ELSE IF item.confidence > deduplicated[i].confidence
        THEN [deduplicated EXCEPT ![i] = item]
        ELSE IF item.confidence = deduplicated[i].confidence /\ item.confidence = 10
        THEN [deduplicated EXCEPT ![i] = item]
        ELSE deduplicated

RECURSIVE DedupFold(_, _)
DedupFold(deduplicated, rest) ==
    IF rest = <<>> THEN deduplicated
    ELSE DedupFold(DedupStep(deduplicated, Head(rest)), Tail(rest))

\* RecognitionEngine._deduplicate
Deduplicate(its) == IF its = <<>> THEN <<>> ELSE DedupFold(<<>>, SortedByPosition(its))

VARIABLES
    d_items,        \* _deduplicate: the items argument
    d_pc,           \* _deduplicate: "start", "loop" or "done"
    d_sorted,       \* _deduplicate: sorted_items
    d_idx,          \* _deduplicate: the 1-based position of the for loop
    deduplicated    \* _deduplicate: the accepted list, and what it returns

dedupVars == <<d_items, d_pc, d_sorted, d_idx, deduplicated>>

\* _deduplicate, lines 178-184
DedupStart ==
    /\ d_pc = "start"
    /\ IF d_items = <<>>
       THEN d_pc' = "done" /\ UNCHANGED <<d_sorted, d_idx>>
       ELSE d_sorted' = SortedByPosition(d_items) /\ d_idx' = 1 /\ d_pc' = "loop"
    /\ deduplicated' = <<>>
    /\ UNCHANGED d_items

\* _deduplicate, lines 186-203
DedupItem ==
    /\ d_pc = "loop"
    /\ d_idx <= Len(d_sorted)
    /\ deduplicated' = DedupStep(deduplicated, d_sorted[d_idx])
    /\ d_idx' = d_idx + 1
    /\ UNCHANGED <<d_items, d_pc, d_sorted>>

\* _deduplicate, line 205
DedupReturn ==
    /\ d_pc = "loop"
    /\ d_idx > Len(d_sorted)
    /\ d_pc' = "done"
    /\ UNCHANGED <<d_items, d_sorted, d_idx, deduplicated>>

(* The inputs of _deduplicate *)

MaxItems == 3

\* Offsets of the spans given to _deduplicate, and their confidences in tenths
\* (1.0 of the regex matches, 0.8 of the NLP matches).
DedupOffsets == 0..3
Confidences == {8, 10}

\* The spans __post_init__ accepts: end_pos >= start_pos.
DedupShapes ==
    {sh \in [start_pos : DedupOffsets, end_pos : DedupOffsets, confidence : Confidences] :
        sh.end_pos >= sh.start_pos}

\* An item list of the shapes f: item number i carries id i.
WithIds(f) ==
    [i \in DOMAIN f |-> [id |-> i, start_pos |-> f[i].start_pos,
                         end_pos |-> f[i].end_pos, confidence |-> f[i].confidence]]

-----------------------------------------------------------------------------
(* Recognition Engine *)

VARIABLES
    nlp_model,      \* RecognitionEngine.nlp_model: "None" or the loaded model
    last_load,      \* history: "never", or how the engine's last load ended
    e_pc,           \* where the current call stands
    e_pieces,       \* the tokens of the text argument
    e_text,         \* identify_sensitive_data: the text argument
    use_nlp,        \* identify_sensitive_data: the use_nlp argument
    items,          \* identify_sensitive_data: items
    scan,           \* _regex_recognition: its loops, items and matched_positions
    ents,           \* _nlp_recognition: doc.ents
    ent_idx,        \* _nlp_recognition: the 1-based position of the for loop
    nlp_items,      \* _nlp_recognition: items
    exc,            \* the exception in flight, or "none"
    outcome,        \* "none", "returned" or "raised"
    retval,         \* what the call returned
    init_attempts,  \* history: entries of _load_nlp_model's try block in this call
    nlp_calls,      \* history: invocations of the model, nlp(text), in this call
    load_fail,      \* history: the step of model loading that failed in this call
    scan_fail       \* history: "none", or the model failed at run time in this call,
                    \* "partial" with items already collected, "empty" without

engineVars == <<nlp_model, last_load, e_pc, e_pieces, e_text, use_nlp, items,
                scan, ents, ent_idx, nlp_items, exc, outcome, retval,
                init_attempts, nlp_calls, load_fail, scan_fail>>

\* isinstance(an exception of class c, k), for the classes the engine meets.
IsInstance(c, k) ==
    \/ c = k
    \/ k = "Exception"
    \/ (c = "FileNotFoundError" /\ k = "OSError")

Model == "zh_core_web_sm"

\* Mutant: the extractor runs whatever use_nlp says.
AfterRegexAlways(flag) == "load"

\* identify_sensitive_data, line 231: if use_nlp.
AfterRegex(flag) == IF flag THEN "load" ELSE "dedupe"

\* Mutant: what the extractor had collected before it failed is kept.
ItemsOnNlpFailureKeep(its, collected) == its \o collected

\* identify_sensitive_data, lines 239-245: the handler logs; items is as it was
\* before _nlp_recognition was called.
ItemsOnNlpFailure(its, collected) == its

\* _nlp_recognition, lines 145-161: the item of an entity, <<>> for a skipped label.
EntItem(ent) ==
    IF ent.label = "PERSON"
    THEN <<[type |-> Name, value |-> ent.text, start_pos |-> ent.start_char,
            end_pos |-> ent.end_char, confidence |-> 8]>>
    ELSE IF ent.label \in {"GPE", "LOC", "FAC"}
    THEN <<[type |-> Address, value |-> ent.text, start_pos |-> ent.start_char,
            end_pos |-> ent.end_char, confidence |-> 8]>>
    ELSE <<>>

(* The inputs of identify_sensitive_data *)

MaxPieces == 2
MaxEnts == 1

\* The tokens texts are made of: a phone number, seven digits (a phone number and
\* they make 18 digits), 17 digits, a check letter, a letter, a letter and a phone
\* number, the rest of an email address, 18 digits that end in a phone number.
PhonePiece == <<"1", "3", "8", "1", "2", "3", "4", "5", "6", "7", "8">>
SevenDigits == <<"1", "0", "1", "1", "2", "3", "4">>
SeventeenDigits == <<"1", "1", "0", "1", "0", "1", "1", "9", "9", "0", "0", "1",
                     "0", "1", "1", "2", "3">>
UserPiece == <<"a">> \o PhonePiece
IdPiece == SevenDigits \o PhonePiece
Pieces == {PhonePiece, SevenDigits, SeventeenDigits, <<"X">>, <<"a">>, UserPiece,
           <<"@", "b", ".", "c", "n">>, IdPiece}

PieceLists == UNION {[1..n -> Pieces] : n \in 0..MaxPieces}

RECURSIVE Flatten(_)
Flatten(ps) == IF ps = <<>> THEN <<>> ELSE Head(ps) \o Flatten(Tail(ps))

\* The entities the model may report for the tokens ps: spans of whole tokens
\* with their character offsets into the text and the text they cover, one after
\* the other without overlap (spaCy's doc.ents).
EntsOf(ps) ==
    {[label |-> l,
      start_char |-> Len(Flatten(SubSeq(ps, 1, i - 1))),
      end_char |-> Len(Flatten(SubSeq(ps, 1, j))),
      text |-> Flatten(SubSeq(ps, i, j))] :
        l \in {"PERSON", "GPE", "ORG"}, i \in 1..Len(ps), j \in 1..Len(ps)}

EntLists(ps) ==
    UNION {{es \in [1..n -> {e \in EntsOf(ps) : e.start_char < e.end_char}] :
                \A i \in 1..(n - 1) : es[i].end_char <= es[i + 1].start_char} :
           n \in 0..MaxEnts}

\* identify_sensitive_data is called, lines 222-226.
IdentifyCall ==
    /\ e_pc = "idle"
    /\ \E ps \in PieceLists : e_pieces' = ps /\ e_text' = Flatten(ps)
    /\ use_nlp' \in BOOLEAN
    /\ items' = <<>>
    /\ scan' = ScanInit
    /\ ents' = <<>>
    /\ ent_idx' = 0
    /\ nlp_items' = <<>>
    /\ exc' = "none"
    /\ outcome' = "none"
    /\ retval' = <<>>
    /\ init_attempts' = 0
    /\ nlp_calls' = 0
    /\ load_fail' = "none"
    /\ scan_fail' = "none"
    /\ e_pc' = "regex"
    /\ UNCHANGED <<nlp_model, last_load>>

\* _regex_recognition, lines 68-91: one step of its loops.
RegexStep ==
    /\ e_pc = "regex"
    /\ ~ScanDone(scan)
    /\ scan' = ScanStep(e_text, scan)
    /\ UNCHANGED <<nlp_model, last_load, e_pc, e_pieces, e_text, use_nlp, items,
                   ents, ent_idx, nlp_items, exc, outcome, retval, init_attempts,
                   nlp_calls, load_fail, scan_fail>>

\* _regex_recognition returns; identify_sensitive_data, lines 227-231.
RegexReturn ==
    /\ e_pc = "regex"
    /\ ScanDone(scan)
    /\ items' = items \o scan.items
    /\ e_pc' = AfterRegex(use_nlp)
    /\ UNCHANGED <<nlp_model, last_load, e_pieces, e_text, use_nlp, scan,
                   ents, ent_idx, nlp_items, exc, outcome, retval, init_attempts,
                   nlp_calls, load_fail, scan_fail>>

\* _load_nlp_model, lines 100 and 122: the model is already loaded.
LoadCached ==
    /\ e_pc = "load"
    /\ nlp_model # "None"
    /\ e_pc' = "nlp"
    /\ UNCHANGED <<nlp_model, last_load, e_pieces, e_text, use_nlp, items, scan,
                   ents, ent_idx, nlp_items, exc, outcome, retval, init_attempts,
                   nlp_calls, load_fail, scan_fail>>

\* _load_nlp_model, lines 101-121: the try block (import spacy, spacy.load) and
\* the handler its exception selects.  OSError goes to the download handler; any
\* other exception is wrapped in RecognitionError.
LoadTry ==
    /\ e_pc = "load"
    /\ nlp_model = "None"
    /\ init_attempts' = init_attempts + 1
    /\ \E o \in {"ok", "ImportError", "OSError", "ValueError"} :
        IF o = "ok"
        THEN /\ nlp_model' = Model
             /\ last_load' = "ok"
             /\ e_pc' = "nlp"
             /\ UNCHANGED <<exc, load_fail>>
        ELSE IF IsInstance(o, "OSError")
        THEN /\ e_pc' = "download"
             /\ UNCHANGED <<nlp_model, last_load, exc, load_fail>>
        ELSE /\ exc' = "RecognitionError"
             /\ load_fail' = "load"
             /\ last_load' = "failed"
             /\ e_pc' = "except"
             /\ UNCHANGED nlp_model
    /\ UNCHANGED <<e_pieces, e_text, use_nlp, items, scan, ents, ent_idx,
                   nlp_items, outcome, retval, nlp_calls, scan_fail>>

\* _load_nlp_model, lines 109-111, in the OSError handler: the download.  An
\* exception raised here is raised inside an except clause: no clause of the same
\* try statement handles it, and it leaves _load_nlp_model as it is.
Download ==
    /\ e_pc = "download"
    /\ \E o \in {"ok", "CalledProcessError", "FileNotFoundError"} :
        IF o = "ok"
        THEN /\ e_pc' = "reload"
             /\ UNCHANGED <<exc, load_fail, last_load>>
        ELSE /\ exc' = o
             /\ load_fail' = "download"
             /\ last_load' = "failed"
             /\ e_pc' = "except"
    /\ UNCHANGED <<nlp_model, e_pieces, e_text, use_nlp, items, scan, ents,
                   ent_idx, nlp_items, outcome, retval, init_attempts, nlp_calls,
                   scan_fail>>

\* _load_nlp_model, lines 112-114, in the OSError handler: the second spacy.load.
Reload ==
    /\ e_pc = "reload"
    /\ \E o \in {"ok", "OSError"} :
        IF o = "ok"
        THEN /\ nlp_model' = Model
             /\ last_load' = "ok"
             /\ e_pc' = "nlp"
             /\ UNCHANGED <<exc, load_fail>>
        ELSE /\ exc' = o
             /\ load_fail' = "reload"
             /\ last_load' = "failed"
             /\ e_pc' = "except"
             /\ UNCHANGED nlp_model
    /\ UNCHANGED <<e_pieces, e_text, use_nlp, items, scan, ents, ent_idx,
                   nlp_items, outcome, retval, init_attempts, nlp_calls, scan_fail>>

\* _nlp_recognition, lines 140-143: doc = nlp(text) gives the entities.
NlpRun ==
    /\ e_pc = "nlp"
    /\ nlp_calls' = nlp_calls + 1
    /\ ents' \in EntLists(e_pieces)
    /\ ent_idx' = 1
    /\ nlp_items' = <<>>
    /\ e_pc' = "ents"
    /\ UNCHANGED <<nlp_model, last_load, e_pieces, e_text, use_nlp, items, scan,
                   exc, outcome, retval, init_attempts, load_fail, scan_fail>>

\* _nlp_recognition, line 140: the model raises at run time.
NlpFail ==
    /\ e_pc = "nlp"
    /\ nlp_calls' = nlp_calls + 1
    /\ exc' = "RuntimeError"
    /\ scan_fail' = "empty"
    /\ e_pc' = "except"
    /\ UNCHANGED <<nlp_model, last_load, e_pieces, e_text, use_nlp, items, scan,
                   ents, ent_idx, nlp_items, outcome, retval, init_attempts, load_fail>>

\* _nlp_recognition, lines 143-161: one entity.
EntStep ==
    /\ e_pc = "ents"
    /\ ent_idx <= Len(ents)
    /\ nlp_items' = nlp_items \o EntItem(ents[ent_idx])
    /\ ent_idx' = ent_idx + 1
    /\ UNCHANGED <<nlp_model, last_load, e_pc, e_pieces, e_text, use_nlp, items,
                   scan, ents, exc, outcome, retval, init_attempts, nlp_calls,
                   load_fail, scan_fail>>

\* _nlp_recognition, lines 143-161: the walk over doc.ents raises at run time,
\* some entities already collected.
EntFail ==
    /\ e_pc = "ents"
    /\ ent_idx > 1
    /\ exc' = "RuntimeError"
    /\ scan_fail' = IF nlp_items = <<>> THEN "empty" ELSE "partial"
    /\ e_pc' = "except"
    /\ UNCHANGED <<nlp_model, last_load, e_pieces, e_text, use_nlp, items, scan,
                   ents, ent_idx, nlp_items, outcome, retval, init_attempts, nlp_calls,
                   load_fail>>

\* _nlp_recognition returns, line 163, and its locals are gone;
\* identify_sensitive_data, lines 233-235.
NlpReturn ==
    /\ e_pc = "ents"
    /\ ent_idx > Len(ents)
    /\ items' = items \o nlp_items
    /\ ents' = <<>>
    /\ ent_idx' = 0
    /\ nlp_items' = <<>>
    /\ e_pc' = "dedupe"
    /\ UNCHANGED <<nlp_model, last_load, e_pieces, e_text, use_nlp, scan, exc, outcome,
                   retval, init_attempts, nlp_calls, load_fail, scan_fail>>

\* identify_sensitive_data, lines 236-245: the exception has left
\* _nlp_recognition, whose locals are gone; RecognitionError is raised again, any
\* other Exception is logged and the call goes on.
Except ==
    /\ e_pc = "except"
    /\ IF IsInstance(exc, "RecognitionError")
       THEN /\ outcome' = "raised"
            /\ e_pc' = "done"
            /\ UNCHANGED <<items, exc>>
       ELSE /\ items' = ItemsOnNlpFailure(items, nlp_items)
            /\ exc' = "none"
            /\ e_pc' = "dedupe"
            /\ UNCHANGED outcome
    /\ ents' = <<>>
    /\ ent_idx' = 0
    /\ nlp_items' = <<>>
    /\ UNCHANGED <<nlp_model, last_load, e_pieces, e_text, use_nlp, scan, retval,
                   init_attempts, nlp_calls, load_fail, scan_fail>>

\* identify_sensitive_data, lines 248-254.
DedupeAndReturn ==
    /\ e_pc = "dedupe"
    /\ retval' = Deduplicate(items)
    /\ outcome' = "returned"
    /\ e_pc' = "done"
    /\ UNCHANGED <<nlp_model, last_load, e_pieces, e_text, use_nlp, items, scan,
                   ents, ent_idx, nlp_items, exc, init_attempts, nlp_calls, load_fail,
                   scan_fail>>

\* The call is over, line 254 or the raise of line 238: its arguments, locals and
\* result are gone; the engine keeps nlp_model.
CallEnds ==
    /\ e_pc = "done"
    /\ e_pc' = "idle"
    /\ e_pieces' = <<>>
    /\ e_text' = <<>>
    /\ use_nlp' = FALSE
    /\ items' = <<>>
    /\ scan' = ScanInit
    /\ ents' = <<>>
    /\ ent_idx' = 0
    /\ nlp_items' = <<>>
    /\ exc' = "none"
    /\ outcome' = "none"
    /\ retval' = <<>>
    /\ init_attempts' = 0
    /\ nlp_calls' = 0
    /\ load_fail' = "none"
    /\ scan_fail' = "none"
    /\ UNCHANGED <<nlp_model, last_load>>

-----------------------------------------------------------------------------
(* Span construction *)

VARIABLES
    c_start,        \* SensitiveItem: the start_pos argument
    c_end,          \* SensitiveItem: the end_pos argument
    c_pc,           \* "new" before the construction, "done" after it
    c_outcome       \* "none", "constructed" or the exception raised

ctorVars == <<c_start, c_end, c_pc, c_outcome>>

\* SensitiveItem.__post_init__, lines 30-33: ValueError when end_pos < start_pos.
PostInit(start_pos, end_pos) ==
    IF end_pos < start_pos THEN "ValueError" ELSE "constructed"

\* SensitiveItem(start_pos=..., end_pos=...)
Construct ==
    /\ c_pc = "new"
    /\ c_outcome' = PostInit(c_start, c_end)
    /\ c_pc' = "done"
    /\ UNCHANGED <<c_start, c_end>>

MaxOffset == 8

CtorOffsets == 0..MaxOffset

CtorInit ==
    /\ c_start \in CtorOffsets
    /\ c_end \in CtorOffsets
    /\ c_pc = "new"
    /\ c_outcome = "none"

\* No SensitiveItem is being constructed.
CtorIdle ==
    /\ c_start = 0
    /\ c_end = 0
    /\ c_pc = "idle"
    /\ c_outcome = "none"

-----------------------------------------------------------------------------
(* Calls of process on one processor *)

VARIABLE served     \* history: an earlier call of this processor filled its cache

RECURSIVE ProcessLoop(_, _, _, _)
\* process, lines 279-306, on a processor that served no call: the loop over the
\* sorted items from the cache mapping and the working text, and the return.
ProcessLoop(sorted, rs, mapping, working) ==
    IF sorted = <<>> THEN working
    ELSE LET item == Head(sorted)
             rule == Resolve(item, rs)
             cache_key == CacheKey(item)
             new_value ==
                 IF cache_key \in DOMAIN mapping THEN mapping[cache_key]
                 ELSE StrategyApply(rule[1].strategy, item.value, item.type)
         IN  IF rule = <<>> THEN ProcessLoop(Tail(sorted), rs, mapping, working)
             ELSE ProcessLoop(Tail(sorted), rs,
                              IF cache_key \in DOMAIN mapping THEN mapping
                              ELSE CacheStore(mapping, cache_key, new_value, item.value),
                              Splice(working, item, new_value))

\* DesensitizationProcessor().process(t, its, rs): the call on a new processor.
ProcessFresh(t, its, rs) ==
    IF t = <<>> \/ its = <<>> THEN t
    ELSE ProcessLoop(SortedByStartDesc(its), rs, <<>>, t)

\* The span lists of the calls: non-empty spans, as identify_sensitive_data
\* returns them.
CallSpanLists(t) ==
    UNION {[1..n -> {x \in SpansOf(t) : x.start_pos < x.end_pos /\ x.end_pos <= Len(t)}] :
           n \in 0..MaxSpans}

\* The rules of the calls for one data type: none, a disabled one, an enabled
\* one, an enabled one behind a disabled one, two enabled ones.
CallRuleOptions(ty) ==
    {<<>>,
     <<[data_type |-> ty, strategy |-> "replace", enabled |-> FALSE]>>,
     <<[data_type |-> ty, strategy |-> "mask", enabled |-> TRUE]>>,
     <<[data_type |-> ty, strategy |-> "replace", enabled |-> FALSE],
       [data_type |-> ty, strategy |-> "delete", enabled |-> TRUE]>>,
     <<[data_type |-> ty, strategy |-> "replace", enabled |-> TRUE],
       [data_type |-> ty, strategy |-> "mask", enabled |-> TRUE]>>}

CallRules == {n \o ph : n \in CallRuleOptions(Name), ph \in CallRuleOptions(Phone)}

\* processor.process(text, sensitive_items, rules) is called.
ProcessCall ==
    /\ p_pc = "idle"
    /\ \E t \in Texts : text' = t /\ sensitive_items' \in CallSpanLists(t)
    /\ rules' \in CallRules
    /\ p_pc' = "start"
    /\ UNCHANGED <<sorted_items, p_idx, value_mapping, result, applied, served>>

\* The call is over, line 263 or 306: its arguments, locals and result are gone;
\* the processor keeps its strategies.
ProcessCallEnds ==
    /\ p_pc = "done"
    /\ p_pc' = "idle"
    /\ text' = <<>>
    /\ sensitive_items' = <<>>
    /\ rules' = <<>>
    /\ sorted_items' = <<>>
    /\ p_idx' = 0
    /\ value_mapping' = EmptyCache(value_mapping)
    /\ result' = <<>>
    /\ applied' = <<>>
    /\ served' = (served \/ value_mapping # <<>>)

-----------------------------------------------------------------------------
(* A strategy applied to a value, and its result scanned and processed again *)

VARIABLES
    s_strategy,     \* the name of the strategy in self.strategies
    s_value,        \* apply: the value argument
    s_type,         \* apply: the data_type argument
    s_pc,           \* "call", "applied", "scanned" or "done"
    s_out,          \* what apply returned
    s_spans,        \* what _regex_recognition finds in s_out
    s_again         \* what process makes of s_out with these spans and the same rule

stratVars == <<s_strategy, s_value, s_type, s_pc, s_out, s_spans, s_again>>

\* self.strategies[s_strategy].apply(s_value, s_type)
StrategyInvoke ==
    /\ s_pc = "call"
    /\ s_out' = StrategyApply(s_strategy, s_value, s_type)
    /\ s_pc' = "applied"
    /\ UNCHANGED <<s_strategy, s_value, s_type, s_spans, s_again>>

\* identify_sensitive_data(s_out, use_nlp=False), before _deduplicate
Rescan ==
    /\ s_pc = "applied"
    /\ s_spans' = RegexRecognition(s_out)
    /\ s_pc' = "scanned"
    /\ UNCHANGED <<s_strategy, s_value, s_type, s_out, s_again>>

\* process(s_out, the spans found, [the same rule])
Reprocess ==
    /\ s_pc = "scanned"
    /\ s_again' = ProcessFresh(s_out, Deduplicate(s_spans),
                               <<[data_type |-> s_type, strategy |-> s_strategy,
                                  enabled |-> TRUE]>>)
    /\ s_pc' = "done"
    /\ UNCHANGED <<s_strategy, s_value, s_type, s_out, s_spans>>

(* The inputs of apply *)

MaxDigits == 19

\* The digit at position i of a run: 1, 2, ..., 9, 0, 1, ...
DigitAt(i) == <<"1", "2", "3", "4", "5", "6", "7", "8", "9", "0">>[((i - 1) % 10) + 1]

\* The run of n digits.
DigitRun(n) == [i \in 1..n |-> DigitAt(i)]

\* Email-like values: no local part, one to three characters of local part, two
\* '@', no '@'.
EmailValues ==
    {<<"@", "b", ".", "c", "n">>,
     <<"a", "@", "b", ".", "c", "n">>,
     <<"a", "b", "@", "b", ".", "c", "n">>,
     <<"a", "b", "c", "@", "b", ".", "c", "n">>,
     <<"a", "b", "@", "c", "@", "d">>,
     <<"a", "b">>}

\* Address-like values: a city alone, a city and a district before a street, a
\* district alone, a province and a county, two cities and a district, a city
\* behind a newline.
AddressValues ==
    {<<"U5317", "U4EAC", "U5E02">>,
     <<"U5317", "U4EAC", "U5E02", "U671D", "U9633", "U533A", "X", "X", "U8DEF", "1", "0", "U53F7">>,
     <<"U671D", "U9633", "U533A", "x">>,
     <<"U7701", "x", "U53BF", "y", "y", "y", "y", "y">>,
     <<"x", "U5E02", "y", "U5E02", "z", "U533A">>,
     <<"a", "\n", "U5E02">>}

StrategyValues == {DigitRun(n) : n \in 0..MaxDigits} \cup EmailValues \cup AddressValues

\* A data type ReplaceStrategy.PLACEHOLDERS does not hold.
OtherType == <<"o", "t", "h", "e", "r">>

DataTypes == {Name, IdCard, Phone, Address, BankCard, Email}

StrategyInit ==
    /\ s_strategy \in StrategyNames
    /\ s_value \in StrategyValues
    /\ s_type \in DataTypes \cup {OtherType}
    /\ s_pc = "call"
    /\ s_out = <<>>
    /\ s_spans = <<>>
    /\ s_again = <<>>

\* No strategy is being applied.
StrategyIdle ==
    /\ s_strategy = "mask"
    /\ s_value = <<>>
    /\ s_type = Name
    /\ s_pc = "idle"
    /\ s_out = <<>>
    /\ s_spans = <<>>
    /\ s_again = <<>>

-----------------------------------------------------------------------------
(* Concurrent calls of identify_sensitive_data on one engine *)

VARIABLES
    t_pc,       \* per thread: where its call of identify_sensitive_data stands
    t_use_nlp,  \* per thread: the use_nlp argument of its call
    loads       \* history: assignments of a loaded model to self.nlp_model

threadVars == <<t_pc, t_use_nlp, loads>>

MaxThreads == 2
Threads == 1..MaxThreads

\* _load_nlp_model, line 100: if self.nlp_model is None, read by the thread
\* alone; nothing keeps another thread from being past the same test.
LoadsAfterCheck(model, pcs) == model = "None"

\* identify_sensitive_data is called in thread t, lines 222-231: the regex
\* recognition works on locals only; with use_nlp, _nlp_recognition is entered.
ThreadCall(t) ==
    /\ t_pc[t] = "idle"
    /\ \E flag \in BOOLEAN :
        /\ t_use_nlp' = [t_use_nlp EXCEPT ![t] = flag]
        /\ t_pc' = [t_pc EXCEPT ![t] = IF flag THEN "check" ELSE "dedupe"]
    /\ UNCHANGED <<nlp_model, loads>>

\* _load_nlp_model, line 100: the test of self.nlp_model.
ThreadCheck(t) ==
    /\ t_pc[t] = "check"
    /\ t_pc' = [t_pc EXCEPT ![t] = IF LoadsAfterCheck(nlp_model, t_pc) THEN "try" ELSE "nlp"]
    /\ UNCHANGED <<nlp_model, t_use_nlp, loads>>

\* _load_nlp_model, lines 101-121: the try block and the handler its exception
\* selects.
ThreadLoadTry(t) ==
    /\ t_pc[t] = "try"
    /\ \E o \in {"ok", "OSError", "ValueError"} :
        IF o = "ok"
        THEN /\ nlp_model' = Model
             /\ loads' = loads + 1
             /\ t_pc' = [t_pc EXCEPT ![t] = "nlp"]
        ELSE IF IsInstance(o, "OSError")
        THEN /\ t_pc' = [t_pc EXCEPT ![t] = "download"]
             /\ UNCHANGED <<nlp_model, loads>>
        ELSE /\ t_pc' = [t_pc EXCEPT ![t] = "raised"]
             /\ UNCHANGED <<nlp_model, loads>>
    /\ UNCHANGED t_use_nlp

\* _load_nlp_model, lines 109-111: the download; its failure leaves
\* _load_nlp_model as it is and identify_sensitive_data logs it and goes on.
ThreadDownload(t) ==
    /\ t_pc[t] = "download"
    /\ \E ok \in BOOLEAN :
        t_pc' = [t_pc EXCEPT ![t] = IF ok THEN "reload" ELSE "dedupe"]
    /\ UNCHANGED <<nlp_model, t_use_nlp, loads>>

\* _load_nlp_model, lines 112-114: the second spacy.load.
ThreadReload(t) ==
    /\ t_pc[t] = "reload"
    /\ \E ok \in BOOLEAN :
        IF ok
        THEN /\ nlp_model' = Model
             /\ loads' = loads + 1
             /\ t_pc' = [t_pc EXCEPT ![t] = "nlp"]
        ELSE /\ t_pc' = [t_pc EXCEPT ![t] = "dedupe"]
             /\ UNCHANGED <<nlp_model, loads>>
    /\ UNCHANGED t_use_nlp

\* _nlp_recognition, lines 140-163, and identify_sensitive_data, lines 233-245:
\* the model runs on the thread's text; its items or its failure stay in the
\* thread.
ThreadNlp(t) ==
    /\ t_pc[t] = "nlp"
    /\ t_pc' = [t_pc EXCEPT ![t] = "dedupe"]
    /\ UNCHANGED <<nlp_model, t_use_nlp, loads>>

\* identify_sensitive_data, lines 248-254: the thread's call returns.
ThreadReturn(t) ==
    /\ t_pc[t] = "dedupe"
    /\ t_pc' = [t_pc EXCEPT ![t] = "returned"]
    /\ UNCHANGED <<nlp_model, t_use_nlp, loads>>

\* The call of thread t is over, returned or raised; the thread may call again.
ThreadCallEnds(t) ==
    /\ t_pc[t] \in {"returned", "raised"}
    /\ t_pc' = [t_pc EXCEPT ![t] = "idle"]
    /\ t_use_nlp' = [t_use_nlp EXCEPT ![t] = FALSE]
    /\ UNCHANGED <<nlp_model, loads>>

\* No thread has called the engine.
ThreadsIdle ==
    /\ t_pc = [t \in Threads |-> "idle"]
    /\ t_use_nlp = [t \in Threads |-> FALSE]
    /\ loads = 0

-----------------------------------------------------------------------------
(* Specifications *)

vars == <<procVars, served, dedupVars, engineVars, ctorVars, stratVars, threadVars>>

\* What the steps of one component leave alone.
notProcess == <<served, dedupVars, engineVars, ctorVars, stratVars, threadVars>>
notProcessor == <<dedupVars, engineVars, ctorVars, stratVars, threadVars>>
notDedupe == <<procVars, served, engineVars, ctorVars, stratVars, threadVars>>
notEngine == <<procVars, served, dedupVars, ctorVars, stratVars, threadVars>>
notCtor == <<procVars, served, dedupVars, engineVars, stratVars, threadVars>>
notStrategy == <<procVars, served, dedupVars, engineVars, ctorVars, threadVars>>

\* The engine's variables of a call, which the threads' calls keep to themselves.
engineCall == <<last_load, e_pc, e_pieces, e_text, use_nlp, items, scan, ents,
                ent_idx, nlp_items, exc, outcome, retval, init_attempts,
                nlp_calls, load_fail, scan_fail>>
notThreads == <<procVars, served, dedupVars, engineCall, ctorVars, stratVars>>

\* No call of process is under way.
ProcIdle ==
    /\ text = <<>>
    /\ sensitive_items = <<>>
    /\ rules = <<>>
    /\ p_pc = "idle"
    /\ sorted_items = <<>>
    /\ p_idx = 0
    /\ value_mapping = <<>>
    /\ result = <<>>
    /\ applied = <<>>
    /\ served = FALSE

\* No call of _deduplicate is under way.
DedupIdle ==
    /\ d_items = <<>>
    /\ d_pc = "idle"
    /\ d_sorted = <<>>
    /\ d_idx = 0
    /\ deduplicated = <<>>

\* RecognitionEngine.__init__, lines 45-52: no model is loaded.
EngineInit ==
    /\ nlp_model = "None"
    /\ last_load = "never"
    /\ e_pc = "idle"
    /\ e_pieces = <<>>
    /\ e_text = <<>>
    /\ use_nlp = FALSE
    /\ items = <<>>
    /\ scan = ScanInit
    /\ ents = <<>>
    /\ ent_idx = 0
    /\ nlp_items = <<>>
    /\ exc = "none"
    /\ outcome = "none"
    /\ retval = <<>>
    /\ init_attempts = 0
    /\ nlp_calls = 0
    /\ load_fail = "none"
    /\ scan_fail = "none"

\* One call of DesensitizationProcessor.process.
InitProcess ==
    ProcInit /\ served = FALSE /\ DedupIdle /\ EngineInit /\ CtorIdle /\ StrategyIdle /\ ThreadsIdle

NextProcess ==
    \/ ProcessStart /\ UNCHANGED notProcess
    \/ ProcessItem /\ UNCHANGED notProcess
    \/ ProcessReturn /\ UNCHANGED notProcess

SpecProcess == InitProcess /\ [][NextProcess]_vars

\* One call of RecognitionEngine._deduplicate.
DedupInit ==
    /\ \E n \in 0..MaxItems : \E f \in [1..n -> DedupShapes] : d_items = WithIds(f)
    /\ d_pc = "start"
    /\ d_sorted = <<>>
    /\ d_idx = 0
    /\ deduplicated = <<>>

InitDedupe == ProcIdle /\ DedupInit /\ EngineInit /\ CtorIdle /\ StrategyIdle /\ ThreadsIdle

NextDedupe ==
    \/ DedupStart /\ UNCHANGED notDedupe
    \/ DedupItem /\ UNCHANGED notDedupe
    \/ DedupReturn /\ UNCHANGED notDedupe

SpecDedupe == InitDedupe /\ [][NextDedupe]_vars

\* Calls of RecognitionEngine.identify_sensitive_data on one engine, one after
\* the other.
InitIdentify == ProcIdle /\ DedupIdle /\ EngineInit /\ CtorIdle /\ StrategyIdle /\ ThreadsIdle

NextIdentify ==
    \/ IdentifyCall /\ UNCHANGED notEngine
    \/ RegexStep /\ UNCHANGED notEngine
    \/ RegexReturn /\ UNCHANGED notEngine
    \/ LoadCached /\ UNCHANGED notEngine
    \/ LoadTry /\ UNCHANGED notEngine
    \/ Download /\ UNCHANGED notEngine
    \/ Reload /\ UNCHANGED notEngine
    \/ NlpRun /\ UNCHANGED notEngine
    \/ NlpFail /\ UNCHANGED notEngine
    \/ EntStep /\ UNCHANGED notEngine
    \/ EntFail /\ UNCHANGED notEngine
    \/ NlpReturn /\ UNCHANGED notEngine
    \/ Except /\ UNCHANGED notEngine
    \/ DedupeAndReturn /\ UNCHANGED notEngine
    \/ CallEnds /\ UNCHANGED notEngine

SpecIdentify == InitIdentify /\ [][NextIdentify]_vars

\* Calls of DesensitizationProcessor.process on one processor, one after the
\* other.
InitProcessor == ProcIdle /\ DedupIdle /\ EngineInit /\ CtorIdle /\ StrategyIdle /\ ThreadsIdle

NextProcessor ==
    \/ ProcessCall /\ UNCHANGED notProcessor
    \/ ProcessStart /\ UNCHANGED notProcess
    \/ ProcessItem /\ UNCHANGED notProcess
    \/ ProcessReturn /\ UNCHANGED notProcess
    \/ ProcessCallEnds /\ UNCHANGED notProcessor

SpecProcessor == InitProcessor /\ [][NextProcessor]_vars

\* One construction of a SensitiveItem.
InitConstruct == ProcIdle /\ DedupIdle /\ EngineInit /\ CtorInit /\ StrategyIdle /\ ThreadsIdle

NextConstruct == Construct /\ UNCHANGED notCtor

SpecConstruct == InitConstruct /\ [][NextConstruct]_vars

\* One strategy applied to one value, the result scanned and processed again.
InitStrategy == ProcIdle /\ DedupIdle /\ EngineInit /\ CtorIdle /\ StrategyInit /\ ThreadsIdle

NextStrategy ==
    \/ StrategyInvoke /\ UNCHANGED notStrategy
    \/ Rescan /\ UNCHANGED notStrategy
    \/ Reprocess /\ UNCHANGED notStrategy

SpecStrategy == InitStrategy /\ [][NextStrategy]_vars

\* One call of DesensitizationProcessor.process over spans whose data types and
\* values may hold ':', the separator of the cache key.
NameColonA == Name \o <<":", "a">>

CacheText == <<"a", ":", "a", "a">>

CacheSpans ==
    {x \in [type : {Name, NameColonA}, value : {Slice(CacheText, s, e) : s, e \in 0..Len(CacheText)},
            start_pos : 0..Len(CacheText), end_pos : 0..Len(CacheText)] :
        /\ x.start_pos < x.end_pos
        /\ x.value = Slice(CacheText, x.start_pos, x.end_pos)}

CacheRuleOptions(ty) ==
    {<<>>} \cup {<<[data_type |-> ty, strategy |-> st, enabled |-> TRUE]>> : st \in StrategyNames}

CacheInit ==
    /\ text = CacheText
    /\ \E n \in 0..MaxSpans : sensitive_items \in [1..n -> CacheSpans]
    /\ \E n \in CacheRuleOptions(Name), c \in CacheRuleOptions(NameColonA) : rules = n \o c
    /\ p_pc = "start"
    /\ sorted_items = <<>>
    /\ p_idx = 0
    /\ value_mapping = <<>>
    /\ result = <<>>
    /\ applied = <<>>

InitCache ==
    CacheInit /\ served = FALSE /\ DedupIdle /\ EngineInit /\ CtorIdle /\ StrategyIdle
    /\ ThreadsIdle

NextCache ==
    \/ ProcessStart /\ UNCHANGED notProcess
    \/ ProcessItem /\ UNCHANGED notProcess
    \/ ProcessReturn /\ UNCHANGED notProcess

SpecCache == InitCache /\ [][NextCache]_vars

\* Calls of identify_sensitive_data on one engine from MaxThreads threads, their
\* steps interleaved.
InitThreads == ProcIdle /\ DedupIdle /\ EngineInit /\ CtorIdle /\ StrategyIdle /\ ThreadsIdle

NextThreads ==
    \/ \E t \in Threads : ThreadCall(t) /\ UNCHANGED notThreads
    \/ \E t \in Threads : ThreadCheck(t) /\ UNCHANGED notThreads
    \/ \E t \in Threads : ThreadLoadTry(t) /\ UNCHANGED notThreads
    \/ \E t \in Threads : ThreadDownload(t) /\ UNCHANGED notThreads
    \/ \E t \in Threads : ThreadReload(t) /\ UNCHANGED notThreads
    \/ \E t \in Threads : ThreadNlp(t) /\ UNCHANGED notThreads
    \/ \E t \in Threads : ThreadReturn(t) /\ UNCHANGED notThreads
    \/ \E t \in Threads : ThreadCallEnds(t) /\ UNCHANGED notThreads

SpecThreads == InitThreads /\ [][NextThreads]_vars

-----------------------------------------------------------------------------
(* Properties of the Recognition Engine *)

\* The codepoint positions a span covers.
Positions(item) == item.start_pos..(item.end_pos - 1)

\* What identify_sensitive_data(t, use_nlp=False) returns.
IdentifyRegexOnly(t) == Deduplicate(RegexRecognition(t))

\* C5: every span identify_sensitive_data returns lies inside the text it was
\* given, is not empty, and carries the codepoints of the text between its
\* positions.
C5_PositionCorrectness ==
    (e_pc = "done" /\ outcome = "returned")
    => \A i \in Indices(retval) :
          /\ 0 <= retval[i].start_pos
          /\ retval[i].start_pos < retval[i].end_pos
          /\ retval[i].end_pos <= Len(e_text)
          /\ Slice(e_text, retval[i].start_pos, retval[i].end_pos) = retval[i].value

\* A call with the extractor returned a pattern match and an entity, the entity
\* not at the start of the text.
C5_Witness ==
    /\ e_pc = "done"
    /\ outcome = "returned"
    /\ use_nlp
    /\ \E i, j \in Indices(retval) :
        /\ retval[i].confidence = 10
        /\ retval[j].confidence = 8
        /\ retval[j].start_pos > 0

\* C6: at every step of the scan, no two emitted spans share a codepoint
\* position, and the claimed positions are exactly the positions of the emitted
\* spans: a match is emitted only on unclaimed positions and claims all of its
\* positions.
C6_ScanDisjoint ==
    /\ \A i, j \in Indices(scan.items) :
          i # j => Positions(scan.items[i]) \cap Positions(scan.items[j]) = {}
    /\ scan.matched_positions = UNION {Positions(scan.items[i]) : i \in Indices(scan.items)}

\* A finished scan reported an 18-digit run as an ID number, the run matches the
\* bank card pattern too, and no bank card was reported.
C6_Witness ==
    /\ e_pc = "regex"
    /\ ScanDone(scan)
    /\ \E i \in Indices(scan.items) :
        /\ scan.items[i].type = IdCard
        /\ MatchBankCard(e_text, scan.items[i].start_pos) # -1
    /\ \A i \in Indices(scan.items) : scan.items[i].type # BankCard

\* C7: the list _deduplicate returns holds no two spans whose intervals overlap.
C7_NoOverlap ==
    d_pc = "done" => PairwiseNonOverlapping(deduplicated)

\* _deduplicate returned two spans or more, having dropped one of an overlapping
\* pair.
C7_Witness ==
    /\ d_pc = "done"
    /\ Len(deduplicated) >= 2
    /\ Len(deduplicated) < Len(d_items)
    /\ ~PairwiseNonOverlapping(d_items)

\* C8 as stated: a call with use_nlp in which a step of loading the model failed
\* ends raising RecognitionError.
C8_InitFailureRaises ==
    (e_pc = "done" /\ use_nlp /\ load_fail # "none")
    => (outcome = "raised" /\ exc = "RecognitionError")

\* C9: a call in which the extractor failed at run time, the model loaded, does
\* not raise and returns what the call without the extractor returns for the
\* text.
C9_RuntimeFailureDegrades ==
    (e_pc = "done" /\ scan_fail # "none")
    => (outcome = "returned" /\ retval = IdentifyRegexOnly(e_text))

\* The extractor failed after it had collected an item, and the call returned the
\* pattern matches.
C9_Witness ==
    /\ e_pc = "done"
    /\ scan_fail = "partial"
    /\ outcome = "returned"
    /\ retval # <<>>

\* C10: a call without use_nlp never enters the model loader, never runs the
\* model and never raises, whatever the engine's model state.
C10_NoExtractorWithoutFlag ==
    (e_pc # "idle" /\ ~use_nlp)
    => /\ e_pc \in {"regex", "dedupe", "done"}
       /\ init_attempts = 0
       /\ nlp_calls = 0
       /\ outcome # "raised"
       /\ exc = "none"

\* A call without use_nlp returned pattern matches on an engine whose last load of
\* the model had failed.
C10_Witness ==
    /\ e_pc = "done"
    /\ ~use_nlp
    /\ last_load = "failed"
    /\ nlp_model = "None"
    /\ outcome = "returned"
    /\ retval # <<>>

-----------------------------------------------------------------------------
(* Properties of span construction *)

\* C11 as stated: the construction of a span with end_pos <= start_pos, the empty
\* interval end_pos = start_pos included, fails with an error.
C11_EmptyOrReversedFails ==
    (c_pc = "done" /\ c_end <= c_start) => c_outcome = "ValueError"

-----------------------------------------------------------------------------
(* Properties of the Rule Resolver and of calls on one processor *)

\* The positions in rs of the enabled rules of a category.
EnabledOf(category, rs) ==
    {k \in Indices(rs) : rs[k].data_type = category /\ rs[k].enabled}

\* The first of them, for a category that has one.
FirstEnabledIndex(category, rs) ==
    CHOOSE k \in EnabledOf(category, rs) : \A m \in EnabledOf(category, rs) : k <= m

\* C12: _find_rule returns the first rule in input order whose data type is the
\* given one and which is enabled, and None exactly when there is none; process
\* replaces every span of a category by what the strategy of that first rule
\* makes of it, and leaves the spans of a category without such a rule alone.
C12_FirstEnabledRule ==
    /\ \A category \in {Name, Phone, Email} :
          FindRule(category, rules) =
              IF EnabledOf(category, rules) = {} THEN <<>>
              ELSE <<rules[FirstEnabledIndex(category, rules)]>>
    /\ p_pc = "done" =>
          \A i \in Indices(applied) :
              LET item == sorted_items[i]
              IN  IF EnabledOf(item.type, rules) = {} THEN ~applied[i].hit
                  ELSE /\ applied[i].hit
                       /\ applied[i].new_value =
                              StrategyApply(rules[FirstEnabledIndex(item.type, rules)].strategy,
                                            item.value, item.type)

\* A finished call replaced two spans of one category that has two enabled rules
\* of different strategies, the rule list holding a disabled rule too.
C12_Witness ==
    /\ p_pc = "done"
    /\ \E i, j \in Indices(applied) :
        /\ i # j /\ Spliced(i) /\ Spliced(j)
        /\ sorted_items[i].type = sorted_items[j].type
        /\ sorted_items[i].value # sorted_items[j].value
        /\ \E k, m \in EnabledOf(sorted_items[i].type, rules) :
              rules[k].strategy # rules[m].strategy
    /\ \E k \in Indices(rules) : ~rules[k].enabled

-----------------------------------------------------------------------------
(* Properties of the strategies *)

\* apply has returned.
Applied == s_pc \in {"applied", "scanned", "done"}

\* The least length MaskStrategy.apply masks, lines 77, 83 and 93.
MaskMinimum(data_type) ==
    CASE data_type = IdCard -> 18
      [] data_type = Phone -> 11
      [] data_type = BankCard -> 8

\* C13 as stated: Mask on id_card, phone and bank_card returns a value as long as
\* its input whenever the input is at least as long as the scheme's minimum.
C13_MaskKeepsLength ==
    (/\ Applied
     /\ s_strategy = "mask"
     /\ s_type \in {IdCard, Phone, BankCard}
     /\ Len(s_value) >= MaskMinimum(s_type))
    => Len(s_out) = Len(s_value)

\* C13 as amended: on an input at least as long as the scheme's minimum, Mask
\* returns a value as long as the input for bank_card, and a value of exactly the
\* minimum length (18, 11) for id_card and phone, so as long as the input only
\* when the input has exactly that length.
C13_MaskLength ==
    (/\ Applied
     /\ s_strategy = "mask"
     /\ s_type \in {IdCard, Phone, BankCard}
     /\ Len(s_value) >= MaskMinimum(s_type))
    => Len(s_out) = IF s_type = BankCard THEN Len(s_value) ELSE MaskMinimum(s_type)

\* Mask was applied to an id_card longer than 18 codepoints and returned 18.
C13_Witness ==
    /\ Applied
    /\ s_strategy = "mask"
    /\ s_type = IdCard
    /\ Len(s_value) > MaskMinimum(IdCard)
    /\ Len(s_out) = MaskMinimum(IdCard)

-----------------------------------------------------------------------------
(* Properties of the Consistency Cache across calls *)

\* C14: on a processor that serves one call after the other, the cache is empty
\* when a call enters its loop, nothing of it is left between calls, and what a
\* call returns is what a new processor returns for the same arguments.
C14_CachePerCall ==
    /\ p_pc \in {"idle", "start"} => value_mapping = <<>>
    /\ (p_pc = "loop" /\ p_idx = 1) => value_mapping = <<>>
    /\ p_pc = "done" => result = ProcessFresh(text, sensitive_items, rules)

\* A call on a processor whose earlier call had filled its cache returned a
\* changed text, its own cache filled.
C14_Witness ==
    /\ served
    /\ p_pc = "done"
    /\ value_mapping # <<>>
    /\ result # text


\* How many codepoints Mask keeps in front, lines 79, 85 and 96.
MaskPrefix(data_type) ==
    CASE data_type = IdCard -> 6
      [] data_type = Phone -> 3
      [] data_type = BankCard -> 4

\* How many mask characters Mask puts in the middle of a value of n codepoints.
MaskMiddle(data_type, n) ==
    CASE data_type = IdCard -> 8
      [] data_type = Phone -> 4
      [] data_type = BankCard -> n - 8

\* C15: Mask on id_card, phone and bank_card returns a value shorter than the
\* scheme's minimum unchanged, and otherwise the first 6, 3 or 4 codepoints of the
\* value, then 8, 4 or (length - 8) mask characters, then the value's last 4
\* codepoints.
C15_MaskShape ==
    (Applied /\ s_strategy = "mask" /\ s_type \in {IdCard, Phone, BankCard})
    => LET n == Len(s_value)
           k == MaskPrefix(s_type)
           m == MaskMiddle(s_type, n)
       IN  IF n < MaskMinimum(s_type) THEN s_out = s_value
           ELSE /\ Len(s_out) = k + m + 4
                /\ \A i \in 1..k : s_out[i] = s_value[i]
                /\ \A i \in (k + 1)..(k + m) : s_out[i] = "*"
                /\ \A j \in 1..4 : s_out[k + m + j] = s_value[n - 4 + j]

\* Mask was applied to a bank_card of more than 8 codepoints.
C15_Witness ==
    /\ Applied
    /\ s_strategy = "mask"
    /\ s_type = BankCard
    /\ Len(s_value) > MaskMinimum(BankCard)
    /\ s_out # s_value


\* The 1-based position of the first '@' of a value that has one.
FirstAt(value) ==
    CHOOSE i \in 1..Len(value) : value[i] = "@" /\ \A k \in 1..(i - 1) : value[k] # "@"

HasAt(value) == \E i \in 1..Len(value) : value[i] = "@"

\* C16 as stated: Mask on email returns a value without '@' unchanged; otherwise
\* it keeps the first '@' and all after it, and puts in place of the local part
\* before it a single '*' when the local part has exactly one codepoint, else the
\* local part's first codepoint followed by '***'.
C16_MaskEmailFirstChar ==
    (Applied /\ s_strategy = "mask" /\ s_type = Email)
    => IF ~HasAt(s_value) THEN s_out = s_value
       ELSE LET at == FirstAt(s_value)
                local == SubSeq(s_value, 1, at - 1)
            IN  s_out = (IF Len(local) = 1 THEN <<"*">>
                         ELSE Slice(local, 0, 1) \o <<"*", "*", "*">>)
                        \o SubSeq(s_value, at, Len(s_value))

\* C16 as amended: the single '*' stands for a local part of at most one
\* codepoint, the empty local part included.
C16_MaskEmail ==
    (Applied /\ s_strategy = "mask" /\ s_type = Email)
    => IF ~HasAt(s_value) THEN s_out = s_value
       ELSE LET at == FirstAt(s_value)
                local == SubSeq(s_value, 1, at - 1)
            IN  s_out = (IF Len(local) <= 1 THEN <<"*">>
                         ELSE <<local[1], "*", "*", "*">>)
                        \o SubSeq(s_value, at, Len(s_value))

\* Mask was applied to an email value of two '@' with a local part of two
\* codepoints.
C16_Witness ==
    /\ Applied
    /\ s_strategy = "mask"
    /\ s_type = Email
    /\ HasAt(s_value)
    /\ FirstAt(s_value) = 3
    /\ \E i \in 4..Len(s_value) : s_value[i] = "@"
    /\ s_out # s_value


\* C17: Replace returns the placeholder of the data type, the generic placeholder
\* for a data type outside the six, whatever the value; Delete returns the empty
\* str whatever the value and the data type.
C17_ReplaceDeleteConstant ==
    /\ (Applied /\ s_strategy = "replace") =>
          /\ s_out = Placeholder(s_type)
          /\ s_type \notin DataTypes =>
                s_out = <<"[", "U654F", "U611F", "U4FE1", "U606F", "]">>
          /\ s_type \in DataTypes =>
                /\ s_out # <<"[", "U654F", "U611F", "U4FE1", "U606F", "]">>
                /\ \A other \in DataTypes \ {s_type} : s_out # Placeholder(other)
    /\ (Applied /\ s_strategy = "delete") => s_out = <<>>

\* Replace was applied to the empty value under a data type outside the six.
C17_Witness ==
    /\ Applied
    /\ s_strategy = "replace"
    /\ s_type = OtherType
    /\ s_value = <<>>
    /\ s_out # <<>>


\* C18: the regex recognition of what Replace or Delete returned, a placeholder
\* or the empty str, finds no span, and process with the same rule over what it
\* found returns that placeholder or empty str as it is.
C18_ReplaceDeleteIdempotent ==
    s_strategy \in {"replace", "delete"} =>
        /\ s_pc \in {"scanned", "done"} => s_spans = <<>>
        /\ s_pc = "done" => s_again = s_out

\* A value in which the regex recognition finds a span was replaced, and the
\* placeholder was scanned and processed again.
C18_Witness ==
    /\ s_pc = "done"
    /\ s_strategy = "replace"
    /\ RegexRecognition(s_value) # <<>>
    /\ s_out = Placeholder(s_type)
    /\ s_again = s_out


\* The items of its are in ascending order of start_pos.
AscendingByStart(its) ==
    \A i, j \in 1..Len(its) : i < j => its[i].start_pos <= its[j].start_pos

\* The accepted list before item number k of sorted_items is taken.
AcceptedBefore(k) == DedupFold(<<>>, SubSeq(d_sorted, 1, k - 1))

\* C19: the list _deduplicate builds and returns, which is what identify
\* returns, is in ascending order of start position for every input, also after
\* an accepted span was replaced by a later overlapping one.
C19_AscendingByStart ==
    d_pc \in {"loop", "done"} => AscendingByStart(deduplicated)

\* _deduplicate returned two spans or more, having replaced an accepted span by
\* a later item that overlaps it and starts further right.
C19_Witness ==
    /\ d_pc = "done"
    /\ Len(deduplicated) >= 2
    /\ \E k \in 1..Len(d_sorted) :
        LET i == FirstOverlap(AcceptedBefore(k), d_sorted[k])
        IN  /\ i # 0
            /\ DedupStep(AcceptedBefore(k), d_sorted[k])[i] = d_sorted[k]
            /\ AcceptedBefore(k)[i].start_pos < d_sorted[k].start_pos
            /\ \E m \in 1..Len(deduplicated) : deduplicated[m] = d_sorted[k]


\* The spans the for loop of process has not taken yet.
Pending == {k \in Indices(sorted_items) : k >= p_idx}

\* C20 as stated: during process over pairwise non-overlapping spans, after each
\* splice every span still to be processed covers in the working text what it
\* covers in the text given: working_text[start:end] == text[start:end].
C20_SpliceKeepsPending ==
    (/\ p_pc = "loop"
     /\ PairwiseNonOverlapping(sensitive_items)
     /\ WellPlaced(text, sensitive_items))
    => \A k \in Pending :
          Slice(result, sorted_items[k].start_pos, sorted_items[k].end_pos)
              = Slice(text, sorted_items[k].start_pos, sorted_items[k].end_pos)


\* The for loop of _deduplicate takes its next item in this step.
TakesItem == d_pc = "loop" /\ d_idx <= Len(d_sorted) /\ d_idx' = d_idx + 1

\* The item the loop is at, and the first accepted item it overlaps (0: none).
Candidate == d_sorted[d_idx]
Hit == FirstOverlap(deduplicated, Candidate)

\* its holds the item x.
Holds(its, x) == \E m \in 1..Len(its) : its[m] = x

\* C21 as stated: when the candidate overlaps an accepted span of the same
\* confidence, whatever that confidence is, the accepted span stays in the
\* accepted list and the candidate is dropped.
C21_TieKeepsAccepted ==
    [][(TakesItem /\ Hit # 0 /\ Candidate.confidence = deduplicated[Hit].confidence)
        => /\ Holds(deduplicated', deduplicated[Hit])
           /\ ~Holds(deduplicated', Candidate)]_vars

\* C21 as amended: on equal confidence below 1.0 the accepted span stays and the
\* candidate is dropped; on equal confidence 1.0 the candidate takes the place of
\* the accepted span, which leaves the list.
C21_TieBreak ==
    [][(TakesItem /\ Hit # 0 /\ Candidate.confidence = deduplicated[Hit].confidence)
        => IF Candidate.confidence = 10
           THEN /\ deduplicated' = [deduplicated EXCEPT ![Hit] = Candidate]
                /\ ~Holds(deduplicated', deduplicated[Hit])
           ELSE /\ deduplicated' = deduplicated
                /\ ~Holds(deduplicated', Candidate)]_vars

\* _deduplicate returned after a candidate of confidence 1.0 met an accepted
\* span of confidence 1.0 that it overlaps, and the candidate is in what it
\* returned.
C21_Witness ==
    /\ d_pc = "done"
    /\ \E k \in 1..Len(d_sorted) :
        LET i == FirstOverlap(AcceptedBefore(k), d_sorted[k])
        IN  /\ i # 0
            /\ d_sorted[k].confidence = 10
            /\ AcceptedBefore(k)[i].confidence = 10
            /\ Holds(deduplicated, d_sorted[k])
            /\ ~Holds(deduplicated, AcceptedBefore(k)[i])


\* The accepted items the candidate overlaps.
Hits == {i \in 1..Len(deduplicated) : ItemsOverlap(Candidate, deduplicated[i])}

\* C22: when the candidate overlaps an accepted span of another confidence,
\* after the step the one of higher confidence is in the accepted list and the
\* other is not; a candidate that overlaps no accepted span is appended as it is.
C22_HigherConfidenceKept ==
    [][TakesItem =>
        /\ \A i \in Hits :
            /\ Candidate.confidence > deduplicated[i].confidence
               => Holds(deduplicated', Candidate) /\ ~Holds(deduplicated', deduplicated[i])
            /\ Candidate.confidence < deduplicated[i].confidence
               => Holds(deduplicated', deduplicated[i]) /\ ~Holds(deduplicated', Candidate)
        /\ Hits = {} => deduplicated' = Append(deduplicated, Candidate)]_vars

\* _deduplicate returned after a candidate of higher confidence replaced the
\* accepted span it overlaps, a candidate of lower confidence was dropped, and a
\* candidate that overlaps nothing was appended.
C22_Witness ==
    /\ d_pc = "done"
    /\ \E k \in 1..Len(d_sorted) :
        LET i == FirstOverlap(AcceptedBefore(k), d_sorted[k])
        IN  /\ i # 0
            /\ d_sorted[k].confidence > AcceptedBefore(k)[i].confidence
            /\ AcceptedBefore(k + 1)[i] = d_sorted[k]
    /\ \E k \in 1..Len(d_sorted) :
        LET i == FirstOverlap(AcceptedBefore(k), d_sorted[k])
        IN  /\ i # 0
            /\ d_sorted[k].confidence < AcceptedBefore(k)[i].confidence
            /\ AcceptedBefore(k + 1) = AcceptedBefore(k)
    /\ \E k \in 1..Len(d_sorted) :
        /\ FirstOverlap(AcceptedBefore(k), d_sorted[k]) = 0
        /\ AcceptedBefore(k + 1) = Append(AcceptedBefore(k), d_sorted[k])


\* The matches re.finditer yields for each pattern number over the text of the
\* call.
Matches ==
    [p \in 1..Len(PatternTypes) |->
        LET found == FindIter(p, e_text, 0) IN {found[k] : k \in 1..Len(found)}]

\* The positions of the match m.
Covers(m) == m[1]..(m[2] - 1)

\* The scan emitted the match m of pattern number p.
Emitted(p, m) ==
    \E i \in Indices(scan.items) :
        /\ scan.items[i].type = PatternTypes[p]
        /\ scan.items[i].start_pos = m[1]
        /\ scan.items[i].end_pos = m[2]

\* The number of the pattern that emitted an item.
PatternOf(item) == CHOOSE p \in 1..Len(PatternTypes) : PatternTypes[p] = item.type

\* Some position of the match m lies inside a span that a pattern before number
\* p emitted.
InsideEmitted(p, m) ==
    \E i \in Indices(scan.items) :
        /\ PatternOf(scan.items[i]) < p
        /\ Positions(scan.items[i]) \cap Covers(m) # {}

\* The patterns are scanned in the order IdCard, BankCard, Phone, Email, every
\* IdCard match is emitted, and a match of a later pattern is discarded if and
\* only if one of its positions lies inside a span emitted before it.
ScanByPriority(found) ==
    /\ PatternTypes = <<IdCard, BankCard, Phone, Email>>
    /\ \A i, j \in Indices(scan.items) :
          i < j => PatternOf(scan.items[i]) <= PatternOf(scan.items[j])
    /\ \A m \in found[1] : Emitted(1, m)
    /\ \A p \in 2..Len(PatternTypes) : \A m \in found[p] :
          ~Emitted(p, m) <=> InsideEmitted(p, m)

\* C23 as stated: the scan goes by priority as above, so where a match of one
\* pattern and a match of a later pattern overlap, the match of the earlier
\* pattern is the one reported.
C23_HigherPriorityReported ==
    (e_pc = "regex" /\ ScanDone(scan)) =>
        LET found == Matches
        IN  /\ ScanByPriority(found)
            /\ \A p \in 1..Len(PatternTypes) : \A q \in (p + 1)..Len(PatternTypes) :
                  \A m \in found[p] : \A n \in found[q] :
                      Covers(m) \cap Covers(n) # {} => Emitted(p, m) /\ ~Emitted(q, n)

\* C23 as amended: the scan goes by priority as above, so where an emitted span
\* and a match of a later pattern overlap, the emitted span is the one reported;
\* a match that was itself discarded keeps no later match from being reported.
C23_PatternPriority ==
    (e_pc = "regex" /\ ScanDone(scan)) =>
        LET found == Matches
        IN  /\ ScanByPriority(found)
            /\ \A p \in 1..Len(PatternTypes) : \A q \in (p + 1)..Len(PatternTypes) :
                  \A m \in found[p] : \A n \in found[q] :
                      (Emitted(p, m) /\ Covers(m) \cap Covers(n) # {}) => ~Emitted(q, n)

\* A finished scan reported an ID number, discarded the bank card match that
\* overlaps it, and reported a phone number that this bank card match overlaps.
C23_Witness ==
    /\ e_pc = "regex"
    /\ ScanDone(scan)
    /\ LET found == Matches
       IN  \E m \in found[1], n \in found[2], ph \in found[3] :
            /\ Emitted(1, m)
            /\ Covers(m) \cap Covers(n) # {}
            /\ ~Emitted(2, n)
            /\ Covers(n) \cap Covers(ph) # {}
            /\ Emitted(3, ph)


\* A step of the engine enters the try block of _load_nlp_model.
LoadAttempted == e_pc = "load" /\ init_attempts' = init_attempts + 1

\* C24: over the calls of identify on one engine, once a load has ended, in
\* success or in failure, no later step attempts to load again.
C24_LoadedOnce ==
    [][last_load # "never" => ~LoadAttempted]_vars


\* C25: under calls of identify with use_nlp interleaved on one engine whose
\* model is not loaded yet, the model is loaded and set at most once.
C25_InitializedOnce == loads <= 1


\* The 1-based indices of address that '.' reaches from its start: those with
\* no newline before them.
Reached(address) ==
    {k \in 1..Len(address) : \A h \in 1..(k - 1) : address[h] # "\n"}

\* The ends of the leading prefixes of address that hold a province or city
\* mark and, after it, a city, district or county mark.
ProvinceCityEnds(address) ==
    {j \in Reached(address) :
        /\ address[j] \in CityDistrictCounty
        /\ \E i \in 1..(j - 1) : address[i] \in ProvinceCity}

\* The ends of the leading prefixes of address that end in a city, district or
\* county mark.
CityEnds(address) == {j \in Reached(address) : address[j] \in CityDistrictCounty}

Least(set) == CHOOSE x \in set : \A y \in set : x <= y

\* The length of the administrative-division prefix of address, 0 when the
\* leading patterns do not match.
DivisionPrefix(address) ==
    IF ProvinceCityEnds(address) # {} THEN Least(ProvinceCityEnds(address))
    ELSE IF CityEnds(address) # {} THEN Least(CityEnds(address))
    ELSE 0

SixStars == <<"*", "*", "*", "*", "*", "*">>

\* C26 as stated: Mask on address returns '******' alone for every address of 6
\* codepoints or fewer, and for a longer one its administrative-division prefix,
\* or else its first 6 codepoints, followed by '******'.
C26_ShortAddressCollapses ==
    (Applied /\ s_strategy = "mask" /\ s_type = Address) =>
        IF Len(s_value) <= 6 THEN s_out = SixStars
        ELSE IF DivisionPrefix(s_value) # 0
        THEN s_out = SubSeq(s_value, 1, DivisionPrefix(s_value)) \o SixStars
        ELSE s_out = SubSeq(s_value, 1, 6) \o SixStars

\* C26 as amended: Mask on address returns the empty address as it is; an address
\* with an administrative-division prefix, whatever its length, as that prefix
\* followed by '******'; any other address of more than 6 codepoints as its
\* first 6 followed by '******'; any other address as '******' alone.
C26_MaskAddress ==
    (Applied /\ s_strategy = "mask" /\ s_type = Address) =>
        IF s_value = <<>> THEN s_out = <<>>
        ELSE IF DivisionPrefix(s_value) # 0
        THEN s_out = SubSeq(s_value, 1, DivisionPrefix(s_value)) \o SixStars
        ELSE IF Len(s_value) > 6 THEN s_out = SubSeq(s_value, 1, 6) \o SixStars
        ELSE s_out = SixStars

\* Mask was applied to an address of 6 codepoints or fewer that has an
\* administrative-division prefix, and kept the prefix.
C26_Witness ==
    /\ Applied
    /\ s_strategy = "mask"
    /\ s_type = Address
    /\ s_value # <<>>
    /\ Len(s_value) <= 6
    /\ DivisionPrefix(s_value) # 0
    /\ s_out = SubSeq(s_value, 1, DivisionPrefix(s_value)) \o SixStars


\* C27: every span the regex recognition produced is in what identify returns,
\* and a returned span of the extractor (confidence below 1.0) overlaps no span of
\* the regex recognition: of an overlapping pair the extractor's span is the one
\* removed, whichever of the two was accepted first.
C27_RegexSpansSurvive ==
    (e_pc = "done" /\ outcome = "returned") =>
        /\ \A i \in Indices(scan.items) : Holds(retval, scan.items[i])
        /\ \A k \in Indices(retval) : \A i \in Indices(scan.items) :
              retval[k].confidence < 10 => ~ItemsOverlap(retval[k], scan.items[i])

\* identify returned with use_nlp after the extractor reported a span that
\* starts before a regex span it overlaps, so that it was accepted first; the
\* regex span is returned and the extractor's span is not.
C27_Witness ==
    /\ e_pc = "done"
    /\ outcome = "returned"
    /\ use_nlp
    /\ \E n \in Indices(items) : \E r \in Indices(scan.items) :
        /\ items[n].confidence < 10
        /\ ItemsOverlap(items[n], scan.items[r])
        /\ items[n].start_pos < scan.items[r].start_pos
        /\ ~Holds(retval, items[n])
        /\ Holds(retval, scan.items[r])


\* Every item of d_items that _deduplicate did not return overlaps an item it
\* returned.
DroppedForKept ==
    \A i \in Indices(d_items) :
        ~Holds(deduplicated, d_items[i])
        => \E k \in Indices(deduplicated) : Overlap(d_items[i], deduplicated[k])

\* C28: for every input list, each input span absent from what
\* _deduplicate returns overlaps at least one span it returns.
C28_DroppedOnlyForKept ==
    d_pc = "done" => DroppedForKept


\* C29: for every span process splices, the value it used, which may come from
\* the cache under the key type + ':' + value, is what the strategy of the span's
\* resolved rule returns for the span's own value and type.
C29_CacheTransparent ==
    \A i \in Indices(applied) :
        applied[i].hit
        => applied[i].new_value =
              StrategyApply(Resolve(sorted_items[i], rules)[1].strategy,
                            sorted_items[i].value, sorted_items[i].type)


\* The lists that hold the items of its in another or the same order.
Permuted(its) ==
    {[i \in Indices(its) |-> its[p[i]]] :
        p \in {q \in [Indices(its) -> Indices(its)] :
                  \A i, j \in Indices(its) : i # j => q[i] # q[j]}}

\* C30 as stated: for every text, rule list and span list, spans of the same
\* start position included, process returns the same for every order of the
\* span list.
C30_OrderIndependent ==
    p_pc = "done" =>
        \A its \in Permuted(sensitive_items) : ProcessFresh(text, its, rules) = result

\* C30 as amended: the same for every span list in which no two spans have the
\* same start position.
C30_OrderIndependentDistinctStarts ==
    (p_pc = "done" /\ DistinctStarts(sensitive_items)) =>
        \A its \in Permuted(sensitive_items) : ProcessFresh(text, its, rules) = result

\* process returned after splicing two spans of different start positions that
\* were given in ascending order, which the sort reversed.
C30_Witness ==
    /\ p_pc = "done"
    /\ Len(sensitive_items) = 2
    /\ sensitive_items[1].start_pos < sensitive_items[2].start_pos
    /\ sorted_items[1] = sensitive_items[2]
    /\ \A i \in Indices(applied) : applied[i].hit
    /\ result # text

====
